---- MODULE Spec2Model ----
(***************************************************************************)
(* Verification model of the Hybrid-GPU-Simulator synchronisation and      *)
(* memory components.                                                      *)
(*                                                                         *)
(* Each RTL module is modelled as one clocked action: the registers after  *)
(* a rising clock edge are computed from the registers and the input pins  *)
(* before the edge (non-blocking assignment: every right-hand side reads   *)
(* the old value, the textually last assignment to a register wins).  The  *)
(* input pins are part of the state; the environment drives new values on  *)
(* them after every edge.                                                  *)
(***************************************************************************)
EXTENDS Integers, Sequences, FiniteSets, TLC

(***************************************************************************)
(* Module parameters.  Every RTL module is instantiated with small values  *)
(* of its parameters (the testbenches do the same); the code is the same   *)
(* for every value.                                                        *)
(*                                                                         *)
(* The performance counters of the RTL modules (barrier_count,             *)
(* stalled_cycle_count, cycle_counter, atomic_op_count, ...) are free      *)
(* running 32-bit registers that no control path reads.  They are not      *)
(* part of the modelled state, except where a property is about them.      *)
(***************************************************************************)
\* barrier_controller #(.MAX_BARRIERS) (default 16, tb_barrier_controller 8)
MAX_BARRIERS == 2
\* barrier_controller #(.WARPS_PER_BLOCK) (default 32, tb_barrier_controller 8)
WARPS_PER_BLOCK == 3

\* value of a register that reset leaves unassigned and that is never read
\* before it is written
XVal == -1

\* barrier_state_e and atomic_state_e values are the strings of their
\* enumerator names ("IDLE", "COLLECTING", ...)
BarrierIdx == 0 .. (MAX_BARRIERS - 1)
BlockWarps == 0 .. (WARPS_PER_BLOCK - 1)
\* the (barrier_id, block_id) pairs the environment arrives at: one more than
\* the table holds, both fields vary
BarrierIdentities == {<<1, 1>>, <<2, 1>>, <<1, 2>>}
\* arrive_thread_mask values driven by the environment (all lanes active, as
\* in the testbench)
ThreadMaskVals == {"FFFFFFFF"}

VARIABLES
  \* ---- barrier_controller registers
  barrier_table,            \* [BarrierIdx -> barrier_entry_t]
  barrier_states,           \* [BarrierIdx -> barrier_state_e]
  barrier_free,             \* [BarrierIdx -> BOOLEAN]
  barrier_complete,         \* [BarrierIdx -> BOOLEAN or XVal]
  release_barrier_id,
  release_block_id,
  release_warp_mask,
  release_valid,
  release_barrier_id_next,
  release_block_id_next,
  release_warp_mask_next,
  release_valid_next,
  arrive_ready,
  \* ---- barrier_controller input pins
  arrive_valid,
  arrive_barrier_id,
  arrive_block_id,
  arrive_warp_id,
  arrive_thread_mask,
  release_ready

VARIABLES
  \* ---- atomic_unit registers
  current_state,            \* atomic_state_e
  atomic_op_count,
  atomic_contention_count,
  address_valid,            \* [ReqIdx -> BOOLEAN]
  active_addresses,         \* [ReqIdx -> address or XVal]
  pending_reqs,             \* queue of atomic_request_t
  current_req,              \* atomic_request_t
  temp_data,
  orig_data,
  resp_data,
  resp_warp_id,
  resp_lane_id,
  resp_valid,
  mem_address,
  mem_write_data,
  mem_write_en,
  mem_atomic_en,
  mem_atomic_op,
  mem_request_valid,
  \* ---- tb_atomic_unit: memory array and its response registers
  memory,                   \* [MemIdx -> Word]
  mem_read_data,
  mem_response_valid,
  \* ---- tb_atomic_unit: request pins and handshake pins
  req_op,
  req_address,
  req_data,
  req_compare_data,
  req_warp_id,
  req_lane_id,
  req_valid,
  resp_ready,
  mem_ready,
  \* ---- tb_atomic_unit: what the tests record to check the responses
  original_value,           \* memory word of the request when it was accepted
  add_operands,             \* test_request_contention: operands accepted
  add_returns               \* test_request_contention: resp_data received

barrierRegs == <<barrier_table, barrier_states, barrier_free, barrier_complete,
                 release_barrier_id, release_block_id, release_warp_mask,
                 release_valid, release_barrier_id_next, release_block_id_next,
                 release_warp_mask_next, release_valid_next, arrive_ready>>
barrierPins == <<arrive_valid, arrive_barrier_id, arrive_block_id,
                 arrive_warp_id, arrive_thread_mask, release_ready>>
barrierVars == <<barrierRegs, barrierPins>>

VARIABLES
  \* ---- MemoryModel
  sets_,                    \* [SetIdx -> [WayIdx -> CacheLine]]
  main_memory_,             \* the keys present and their words
  stats_,                   \* CacheStats
  current_cycle_,
  mm_request,               \* arguments of the last process_request
  mm_data,                  \* its local data when it returns
  writes                    \* last word written to each address

memVars == <<sets_, main_memory_, stats_, current_cycle_, mm_request, mm_data,
             writes>>

VARIABLES
  \* ---- warp_scheduler registers
  warp_array,               \* [Warps -> warp_state_t]
  rr_pointer,
  divergence_stack,         \* [Warps -> [StackIdx -> mask]]
  stack_pointer,            \* [Warps -> 0 .. 7]
  barrier_stall_mask,       \* set of warps
  \* ---- warp_scheduler input pins
  instruction_in,
  instruction_valid,
  execution_ready,
  memory_stall,
  stalled_warp_id,
  barrier_stall,
  barrier_warp_mask,
  barrier_release_valid,
  barrier_release_warp_mask

schedRegs == <<warp_array, rr_pointer, divergence_stack, stack_pointer,
               barrier_stall_mask>>
schedPins == <<instruction_in, instruction_valid, execution_ready,
               memory_stall, stalled_warp_id, barrier_stall, barrier_warp_mask,
               barrier_release_valid, barrier_release_warp_mask>>
schedVars == <<schedRegs, schedPins>>

atomicRegs == <<current_state, atomic_op_count, atomic_contention_count,
                address_valid, active_addresses, pending_reqs, current_req,
                temp_data, orig_data, resp_data, resp_warp_id, resp_lane_id,
                resp_valid, mem_address, mem_write_data, mem_write_en,
                mem_atomic_en, mem_atomic_op, mem_request_valid>>
atomicTb == <<memory, mem_read_data, mem_response_valid, original_value,
              add_operands, add_returns>>
atomicPins == <<req_op, req_address, req_data, req_compare_data, req_warp_id,
                req_lane_id, req_valid, resp_ready, mem_ready>>
atomicVars == <<atomicRegs, atomicTb, atomicPins>>

VARIABLES
  \* ---- SimulationEngine members (sim_engine.h)
  running_,
  current_time_,
  event_queue_,             \* the heap's vector, a sequence of SimEvent
  warp_states_,             \* [EngineWarps -> WarpState]
  simulation_trace_,        \* sequence of TraceEntry
  instructions_executed,    \* stats_.instructions_executed
  \* ---- where the caller of the engine is
  engine_pc,                \* "constructed", "initialized", "running", "returned"
  completed_runs,           \* number of times run() has returned
  \* ---- observations
  prev_trace,               \* simulation_trace_ when the previous run returned
  next_seq                  \* number of events scheduled since initialize()

engineVars == <<running_, current_time_, event_queue_, warp_states_,
                simulation_trace_, instructions_executed, engine_pc,
                completed_runs, prev_trace, next_seq>>

VARIABLES
  \* ---- register_file registers
  register_file,            \* [warp][register][lane] -> data (valid stays 1)
  register_busy,            \* [warp][register] -> bit
  \* ---- register_file combinational outputs
  rs1_data,
  rs2_data,
  \* ---- register_file input pins, as driven for the next clock edge
  rs1_addr,
  rs1_warp_id,
  rs2_addr,
  rs2_warp_id,
  rd_addr,
  rd_warp_id,
  rd_data,
  rd_thread_mask,           \* the set of lanes whose mask bit is set
  rd_write_en,
  clear_busy_reg,
  clear_busy_warp,
  clear_busy_en,
  \* ---- bound
  rf_writes                 \* number of writes driven so far

regRegs == <<register_file, register_busy>>
regPins == <<rs1_addr, rs1_warp_id, rs2_addr, rs2_warp_id, rd_addr,
             rd_warp_id, rd_data, rd_thread_mask, rd_write_en,
             clear_busy_reg, clear_busy_warp, clear_busy_en>>
regVars == <<regRegs, rs1_data, rs2_data, regPins, rf_writes>>

VARIABLES
  \* ---- DPIWrapper members (dpi_wrapper.h); sim_engine_ is the engine above
  initialized_,
  dpi_current_cycle_,       \* current_cycle_ of the wrapper's memory_model_
  dpi_lines,                \* base addresses of its valid cache lines
  dpi_requests              \* number of calls of process_memory_request

dpiVars == <<initialized_, dpi_current_cycle_, dpi_lines, dpi_requests>>

VARIABLES
  \* ---- shared_memory registers
  sm_current_state,         \* current_state
  mem_banks,                \* [bank][word] -> data
  bank_conflict_count,
  access_count,
  resp_mask,
  resp_id,
  resp_v,                   \* "0", "1" or "X"
  thread_resp_data,
  \* ---- shared_memory variables assigned by the bank conflict detection
  bank_id,
  bank_addr,
  bank_conflict,            \* the set of banks whose bit is set
  \* ---- shared_memory input pins, as driven for the next clock edge
  sm_req_address,           \* req_address
  sm_req_write_data,        \* req_write_data
  sm_req_thread_mask,       \* req_thread_mask, the set of active lanes
  sm_req_write_en,          \* req_write_en
  sm_req_valid,             \* req_valid
  sm_resp_ready,            \* resp_ready
  \* ---- observations
  sm_requests,              \* number of requests accepted
  sm_count_at_accept,       \* bank_conflict_count when the request was accepted
  sm_last_write             \* the pins of the last write request served

smRegs == <<sm_current_state, mem_banks, bank_conflict_count, access_count,
            resp_mask, resp_id, resp_v, thread_resp_data>>
smComb == <<bank_id, bank_addr, bank_conflict>>
smPins == <<sm_req_address, sm_req_write_data, sm_req_thread_mask,
            sm_req_write_en, sm_req_valid, sm_resp_ready>>
smVars == <<smRegs, smComb, smPins, sm_requests, sm_count_at_accept,
            sm_last_write>>

VARIABLES
  \* ---- observation of nested divergence, read by no operation
  nest_depth,               \* [warp] -> divergences not yet matched
  nest                      \* [warp] -> the run of branches being followed

nestVars == <<nest_depth, nest>>

VARIABLES
  \* ---- memory_controller registers
  mc_current_state,         \* current_state
  coalesced_mask,           \* set of lanes whose bit is set
  coalesced_addresses,      \* [lane] -> address
  coalesced_data,           \* [lane] -> data
  cache_data,               \* [line] -> word
  cache_tags,
  cache_valid,
  cache_dirty,
  cache_hits,
  cache_misses,
  exec_read_data,           \* exec_read_data[0], the only element assigned
  \* ---- memory_controller input pins, as driven for the next clock edge
  exec_address,
  exec_write_data,
  exec_thread_mask,         \* set of active lanes
  exec_write_en,
  exec_request_valid,
  mc_mem_read_data,         \* mem_read_data
  mc_mem_ready,             \* mem_ready
  \* ---- observation
  mc_requests               \* warp requests presented so far

mcRegs == <<mc_current_state, coalesced_mask, coalesced_addresses,
            coalesced_data, cache_data, cache_tags, cache_valid, cache_dirty,
            cache_hits, cache_misses, exec_read_data>>
mcPins == <<exec_address, exec_write_data, exec_thread_mask, exec_write_en,
            exec_request_valid, mc_mem_read_data, mc_mem_ready>>
mcVars == <<mcRegs, mcPins, mc_requests>>

vars == <<barrierVars, atomicVars, memVars, schedVars, engineVars, regVars,
          dpiVars, smVars, nestVars, mcVars>>

(***************************************************************************)
(* barrier_controller                                                      *)
(***************************************************************************)

\* the set of the lowest element of a non-empty set of indices, -1 if empty
\* (the for-loops of the find functions return the first match)
FirstIndex(S) == IF S = {} THEN -1 ELSE CHOOSE i \in S : \A j \in S : i <= j

find_free_barrier == FirstIndex({i \in BarrierIdx : barrier_free[i]})

find_barrier(barrier_id, block_id) ==
  FirstIndex({i \in BarrierIdx :
                /\ ~barrier_free[i]
                /\ barrier_table[i].active
                /\ barrier_table[i].barrier_id = barrier_id
                /\ barrier_table[i].block_id = block_id})

\* is_barrier_complete without the comparison with expected_warps
is_barrier_complete_AnyArrival(index) ==
  barrier_table[index].arrived_warps # {}

is_barrier_complete(index) ==
  /\ barrier_table[index].arrived_warps = barrier_table[index].expected_warps
  /\ barrier_table[index].expected_warps # {}

\* entries the state-machine loop looks at (line 149)
EntryLive(i) == ~barrier_free[i] /\ barrier_table[i].active

\* the reset value of an entry
ResetEntry ==
  [barrier_id |-> XVal, block_id |-> XVal, arrived_warps |-> {},
   expected_warps |-> {}, thread_masks |-> [w \in BlockWarps |-> XVal],
   active |-> FALSE]

InitBarrier ==
  /\ barrier_table = [i \in BarrierIdx |-> ResetEntry]
  /\ barrier_states = [i \in BarrierIdx |-> "IDLE"]
  /\ barrier_free = [i \in BarrierIdx |-> TRUE]
  /\ barrier_complete = [i \in BarrierIdx |-> XVal]
  /\ release_barrier_id = 0
  /\ release_block_id = 0
  /\ release_warp_mask = {}
  /\ release_valid = FALSE
  /\ release_barrier_id_next = 0
  /\ release_block_id_next = 0
  /\ release_warp_mask_next = {}
  /\ release_valid_next = FALSE
  /\ arrive_ready \in BOOLEAN      \* not assigned by reset
  /\ arrive_valid = FALSE
  /\ arrive_barrier_id = 0
  /\ arrive_block_id = 0
  /\ arrive_warp_id = 0
  /\ arrive_thread_mask = "FFFFFFFF"
  /\ release_ready = TRUE

\* the highest element of a non-empty set of indices (the last iteration of an
\* ascending for-loop that assigns a shared register)
LastIndex(S) == CHOOSE i \in S : \A j \in S : j <= i

\* state-machine loop, lines 148-199: what the case statement does to entry i
Collecting(i) == EntryLive(i) /\ barrier_states[i] = "COLLECTING"
Completing(i) == Collecting(i) /\ is_barrier_complete(i)
Freeing(i) ==
  /\ EntryLive(i)
  /\ barrier_states[i] = "RELEASING"
  /\ release_ready
  /\ release_valid
  /\ release_barrier_id = barrier_table[i].barrier_id
  /\ release_block_id = barrier_table[i].block_id
TimingOut(i) == EntryLive(i) /\ barrier_states[i] = "TIMEOUT"
Erroring(i) == EntryLive(i) /\ barrier_states[i] = "ERROR"

\* arrival handling, lines 202-246
ArriveAccepted == arrive_valid /\ arrive_ready
ArriveExisting ==
  ArriveAccepted /\ find_barrier(arrive_barrier_id, arrive_block_id) >= 0
ArriveCompletes ==
  /\ ArriveExisting
  /\ is_barrier_complete(find_barrier(arrive_barrier_id, arrive_block_id))
ArriveAllocates ==
  /\ ArriveAccepted
  /\ find_barrier(arrive_barrier_id, arrive_block_id) < 0
  /\ find_free_barrier >= 0
ArriveRejected ==
  /\ ArriveAccepted
  /\ find_barrier(arrive_barrier_id, arrive_block_id) < 0
  /\ find_free_barrier < 0

\* one rising clock edge of barrier_controller with rst_n high, lines 135-247
BarrierEdge ==
  LET barrier_index == find_barrier(arrive_barrier_id, arrive_block_id)
      free_index == find_free_barrier
      completing == {i \in BarrierIdx : Completing(i)}
      \* the entry after the state-machine loop
      LoopEntry(i) ==
        [barrier_table[i] EXCEPT
           !.active = IF Freeing(i) \/ Erroring(i) THEN FALSE ELSE @]
      LoopState(i) ==
        IF Completing(i) THEN "RELEASING"
        ELSE IF Freeing(i) THEN "IDLE"
        ELSE IF TimingOut(i) THEN "RELEASING"
        ELSE IF Erroring(i) THEN "IDLE"
        ELSE barrier_states[i]
      LoopComplete(i) ==
        IF Completing(i) THEN TRUE
        ELSE IF Freeing(i) THEN FALSE
        ELSE barrier_complete[i]
      LoopFree(i) == IF Freeing(i) \/ Erroring(i) THEN TRUE ELSE barrier_free[i]
  IN
  /\ arrive_ready' = ~ArriveRejected
  /\ release_barrier_id' = release_barrier_id_next
  /\ release_block_id' = release_block_id_next
  /\ release_warp_mask' = release_warp_mask_next
  /\ release_valid' = release_valid_next
  /\ release_valid_next' = (completing # {} \/ ArriveCompletes)
  /\ release_barrier_id_next' =
       IF ArriveCompletes THEN barrier_table[barrier_index].barrier_id
       ELSE IF completing # {} THEN barrier_table[LastIndex(completing)].barrier_id
       ELSE release_barrier_id_next
  /\ release_block_id_next' =
       IF ArriveCompletes THEN barrier_table[barrier_index].block_id
       ELSE IF completing # {} THEN barrier_table[LastIndex(completing)].block_id
       ELSE release_block_id_next
  /\ release_warp_mask_next' =
       IF ArriveCompletes THEN barrier_table[barrier_index].arrived_warps
       ELSE IF completing # {} THEN barrier_table[LastIndex(completing)].arrived_warps
       ELSE release_warp_mask_next
  /\ barrier_table' =
       [i \in BarrierIdx |->
          IF ArriveExisting /\ i = barrier_index
          THEN [LoopEntry(i) EXCEPT
                  !.arrived_warps = @ \cup {arrive_warp_id},
                  !.thread_masks[arrive_warp_id] = arrive_thread_mask]
          ELSE IF ArriveAllocates /\ i = free_index
          THEN [barrier_id |-> arrive_barrier_id,
                block_id |-> arrive_block_id,
                arrived_warps |-> {arrive_warp_id},
                expected_warps |-> BlockWarps,
                thread_masks |->
                  [barrier_table[i].thread_masks EXCEPT
                     ![arrive_warp_id] = arrive_thread_mask],
                active |-> TRUE]
          ELSE LoopEntry(i)]
  /\ barrier_states' =
       [i \in BarrierIdx |->
          IF ArriveCompletes /\ i = barrier_index THEN "RELEASING"
          ELSE IF ArriveAllocates /\ i = free_index THEN "COLLECTING"
          ELSE LoopState(i)]
  /\ barrier_complete' =
       [i \in BarrierIdx |->
          IF ArriveCompletes /\ i = barrier_index THEN TRUE ELSE LoopComplete(i)]
  /\ barrier_free' =
       [i \in BarrierIdx |->
          IF ArriveAllocates /\ i = free_index THEN FALSE ELSE LoopFree(i)]

\* the environment drives the input pins for the next edge
BarrierDrive(av, bid, blk, w, tm, rr) ==
  /\ arrive_valid' = av
  /\ arrive_barrier_id' = bid
  /\ arrive_block_id' = blk
  /\ arrive_warp_id' = w
  /\ arrive_thread_mask' = tm
  /\ release_ready' = rr

\* a clock edge after which no arrival is presented
BarrierClockQuiet ==
  /\ UNCHANGED <<atomicVars, memVars, schedVars, engineVars, regVars, dpiVars,
                 smVars, nestVars, mcVars>>
  /\ BarrierEdge
  /\ \E rr \in BOOLEAN : BarrierDrive(FALSE, 0, 0, 0, "FFFFFFFF", rr)

\* a clock edge after which a warp presents an arrival
BarrierClockArrive ==
  /\ UNCHANGED <<atomicVars, memVars, schedVars, engineVars, regVars, dpiVars,
                 smVars, nestVars, mcVars>>
  /\ BarrierEdge
  /\ \E id \in BarrierIdentities, w \in BlockWarps,
        tm \in ThreadMaskVals, rr \in BOOLEAN :
       BarrierDrive(TRUE, id[1], id[2], w, tm, rr)

NextBarrier == BarrierClockQuiet \/ BarrierClockArrive

\* The environment of tb_barrier_controller.test_basic_barrier: every arrival
\* is for barrier_id 1 of block 1.
TbBarrierClockQuiet ==
  /\ UNCHANGED <<atomicVars, memVars, schedVars, engineVars, regVars, dpiVars,
                 smVars, nestVars, mcVars>>
  /\ BarrierEdge
  /\ \E rr \in BOOLEAN : BarrierDrive(FALSE, 0, 0, 0, "FFFFFFFF", rr)

TbBarrierClockArrive ==
  /\ UNCHANGED <<atomicVars, memVars, schedVars, engineVars, regVars, dpiVars,
                 smVars, nestVars, mcVars>>
  /\ BarrierEdge
  /\ \E w \in BlockWarps, rr \in BOOLEAN :
       BarrierDrive(TRUE, 1, 1, w, "FFFFFFFF", rr)

NextBarrierTb == TbBarrierClockQuiet \/ TbBarrierClockArrive

(***************************************************************************)
(* atomic_unit and the memory of tb_atomic_unit                            *)
(*                                                                         *)
(* Data registers that reset leaves unassigned hold XVal.  The simulators  *)
(* the build uses (scripts/compile.sh: vcs, questa, xrun) are four-state:  *)
(* an if whose condition is unknown takes the else branch, so a one-bit    *)
(* register that reset leaves unassigned acts as a low one until it is     *)
(* assigned and starts as FALSE.                                           *)
(***************************************************************************)

\* atomic_unit #(.MAX_PENDING_REQS) (default 16, tb_atomic_unit 8)
MAX_PENDING_REQS == 2
\* width of a data word (logic [31:0]), scaled down
WordBits == 2

\* atomic_types::atomic_op_e, each enumerator as the string of its name
atomic_op_e == {"ATOMIC_ADD", "ATOMIC_SUB", "ATOMIC_EXCH", "ATOMIC_MIN", "ATOMIC_MAX",
                "ATOMIC_AND", "ATOMIC_OR", "ATOMIC_XOR", "ATOMIC_CAS", "ATOMIC_INC",
                "ATOMIC_DEC"}

WordModulus == 2 ^ WordBits
Word == 0 .. (WordModulus - 1)
ReqIdx == 0 .. (MAX_PENDING_REQS - 1)
\* byte addresses the tests use (word aligned) and the words they select
AtomicAddrs == {0, 4}
MemWord(address) == address \div 4          \* mem_address[11:2]
MemIdx == {MemWord(a) : a \in AtomicAddrs}
AtomicLanes == {0, 1}

\* bitwise operators on words, one bit at a time
RECURSIVE Bitwise(_, _, _, _)
Bitwise(tab, a, b, n) ==
  IF n = 0 THEN 0
  ELSE tab[a % 2][b % 2] + 2 * Bitwise(tab, a \div 2, b \div 2, n - 1)
AndBit == [x \in 0 .. 1 |-> [y \in 0 .. 1 |-> IF x = 1 /\ y = 1 THEN 1 ELSE 0]]
OrBit == [x \in 0 .. 1 |-> [y \in 0 .. 1 |-> IF x = 1 \/ y = 1 THEN 1 ELSE 0]]
XorBit == [x \in 0 .. 1 |-> [y \in 0 .. 1 |-> IF x # y THEN 1 ELSE 0]]

check_contention(address) ==
  \E i \in ReqIdx : address_valid[i] /\ active_addresses[i] = address

\* the slot a tracking loop stops at
FreeSlot == FirstIndex({i \in ReqIdx : ~address_valid[i]})
LockSlot(address) ==
  FirstIndex({i \in ReqIdx : address_valid[i] /\ active_addresses[i] = address})

\* add_address that records nothing
add_address_NoLock(address) ==
  [active_addresses |-> active_addresses, address_valid |-> address_valid]

add_address(address) ==
  IF FreeSlot < 0
  THEN [active_addresses |-> active_addresses, address_valid |-> address_valid]
  ELSE [active_addresses |-> [active_addresses EXCEPT ![FreeSlot] = address],
        address_valid |-> [address_valid EXCEPT ![FreeSlot] = TRUE]]

remove_address(address) ==
  IF LockSlot(address) < 0 THEN address_valid
  ELSE [address_valid EXCEPT ![LockSlot(address)] = FALSE]

\* perform_atomic_op in which every operation is an exchange
perform_atomic_op_Exchange(op, orig_val, new_val, compare_val) == new_val

perform_atomic_op(op, orig_val, new_val, compare_val) ==
  CASE op = "ATOMIC_ADD" -> (orig_val + new_val) % WordModulus
    [] op = "ATOMIC_SUB" -> (orig_val - new_val) % WordModulus
    [] op = "ATOMIC_EXCH" -> new_val
    [] op = "ATOMIC_MIN" -> IF orig_val < new_val THEN orig_val ELSE new_val
    [] op = "ATOMIC_MAX" -> IF orig_val > new_val THEN orig_val ELSE new_val
    [] op = "ATOMIC_AND" -> Bitwise(AndBit, orig_val, new_val, WordBits)
    [] op = "ATOMIC_OR" -> Bitwise(OrBit, orig_val, new_val, WordBits)
    [] op = "ATOMIC_XOR" -> Bitwise(XorBit, orig_val, new_val, WordBits)
    [] op = "ATOMIC_CAS" -> IF orig_val = compare_val THEN new_val ELSE orig_val
    [] op = "ATOMIC_INC" -> (orig_val + 1) % WordModulus
    [] op = "ATOMIC_DEC" -> (orig_val - 1) % WordModulus
    [] OTHER -> orig_val

\* assign req_ready, line 280
\* req_ready without the comparison of current_state with IDLE
req_ready_WhileBusy ==
  Len(pending_reqs) < MAX_PENDING_REQS

req_ready ==
  current_state = "IDLE" /\ Len(pending_reqs) < MAX_PENDING_REQS

\* the registers before the edge
AtomicRegs ==
  [current_state |-> current_state, atomic_op_count |-> atomic_op_count,
   atomic_contention_count |-> atomic_contention_count,
   address_valid |-> address_valid, active_addresses |-> active_addresses,
   pending_reqs |-> pending_reqs, current_req |-> current_req,
   temp_data |-> temp_data, orig_data |-> orig_data, resp_data |-> resp_data,
   resp_warp_id |-> resp_warp_id, resp_lane_id |-> resp_lane_id,
   resp_valid |-> resp_valid, mem_address |-> mem_address,
   mem_write_data |-> mem_write_data, mem_write_en |-> mem_write_en,
   mem_atomic_en |-> mem_atomic_en, mem_atomic_op |-> mem_atomic_op,
   mem_request_valid |-> mem_request_valid]

\* new_req, lines 184-191
new_req ==
  [address |-> req_address, data |-> req_data,
   compare_data |-> req_compare_data, op |-> req_op, warp_id |-> req_warp_id,
   lane_id |-> req_lane_id, valid |-> TRUE]

\* lines 200-203 and 207-210: req becomes the current request
StartRequest(r, req) ==
  [r EXCEPT !.current_req = req,
            !.active_addresses = add_address(req.address).active_addresses,
            !.address_valid = add_address(req.address).address_valid,
            !.current_state = "READ_MEM",
            !.atomic_op_count = @ + 1]

\* IDLE, lines 179-212
IdleStep ==
  LET r == [AtomicRegs EXCEPT !.resp_valid = FALSE] IN
  IF req_valid = TRUE /\ req_ready
  THEN IF check_contention(req_address)
       THEN [r EXCEPT !.pending_reqs = Append(@, new_req),
                      !.atomic_contention_count = @ + 1]
       ELSE StartRequest(r, new_req)
  ELSE IF Len(pending_reqs) > 0
       THEN StartRequest([r EXCEPT !.pending_reqs = Tail(@)], Head(pending_reqs))
       ELSE r

\* READ_MEM, lines 214-224
ReadMemStep ==
  IF mem_ready = TRUE
  THEN [AtomicRegs EXCEPT !.mem_address = current_req.address,
                          !.mem_write_en = FALSE,
                          !.mem_atomic_en = TRUE,
                          !.mem_atomic_op = current_req.op,
                          !.mem_request_valid = TRUE,
                          !.current_state = "COMPUTE"]
  ELSE AtomicRegs

\* COMPUTE, lines 226-242
ComputeStep ==
  IF mem_response_valid = TRUE
  THEN [AtomicRegs EXCEPT
          !.mem_request_valid = FALSE,
          !.orig_data = mem_read_data,
          !.temp_data = perform_atomic_op(current_req.op, mem_read_data,
                                          current_req.data,
                                          current_req.compare_data),
          !.current_state = "WRITE_MEM"]
  ELSE AtomicRegs

\* WRITE_MEM, lines 244-255
WriteMemStep ==
  IF mem_ready = TRUE
  THEN [AtomicRegs EXCEPT !.mem_address = current_req.address,
                          !.mem_write_data = temp_data,
                          !.mem_write_en = TRUE,
                          !.mem_atomic_en = TRUE,
                          !.mem_atomic_op = current_req.op,
                          !.mem_request_valid = TRUE,
                          !.current_state = "RESPOND"]
  ELSE AtomicRegs

\* RESPOND that answers with the value written instead of the value read
RespondStep_ReturnsNew ==
  IF mem_response_valid = TRUE
  THEN [AtomicRegs EXCEPT !.mem_request_valid = FALSE,
                          !.resp_data = temp_data,
                          !.resp_warp_id = current_req.warp_id,
                          !.resp_lane_id = current_req.lane_id,
                          !.resp_valid = TRUE,
                          !.address_valid = remove_address(current_req.address),
                          !.current_state = "IDLE"]
  ELSE AtomicRegs

\* RESPOND, lines 257-274
RespondStep ==
  IF mem_response_valid = TRUE
  THEN [AtomicRegs EXCEPT !.mem_request_valid = FALSE,
                          !.resp_data = orig_data,
                          !.resp_warp_id = current_req.warp_id,
                          !.resp_lane_id = current_req.lane_id,
                          !.resp_valid = TRUE,
                          !.address_valid = remove_address(current_req.address),
                          !.current_state = "IDLE"]
  ELSE AtomicRegs

\* the registers after the edge
AtomicNext ==
  CASE current_state = "IDLE" -> IdleStep
    [] current_state = "READ_MEM" -> ReadMemStep
    [] current_state = "COMPUTE" -> ComputeStep
    [] current_state = "WRITE_MEM" -> WriteMemStep
    [] current_state = "RESPOND" -> RespondStep

\* one rising clock edge of atomic_unit with rst_n high, lines 165-277
AtomicEdge ==
  /\ current_state' = AtomicNext.current_state
  /\ atomic_op_count' = AtomicNext.atomic_op_count
  /\ atomic_contention_count' = AtomicNext.atomic_contention_count
  /\ address_valid' = AtomicNext.address_valid
  /\ active_addresses' = AtomicNext.active_addresses
  /\ pending_reqs' = AtomicNext.pending_reqs
  /\ current_req' = AtomicNext.current_req
  /\ temp_data' = AtomicNext.temp_data
  /\ orig_data' = AtomicNext.orig_data
  /\ resp_data' = AtomicNext.resp_data
  /\ resp_warp_id' = AtomicNext.resp_warp_id
  /\ resp_lane_id' = AtomicNext.resp_lane_id
  /\ resp_valid' = AtomicNext.resp_valid
  /\ mem_address' = AtomicNext.mem_address
  /\ mem_write_data' = AtomicNext.mem_write_data
  /\ mem_write_en' = AtomicNext.mem_write_en
  /\ mem_atomic_en' = AtomicNext.mem_atomic_en
  /\ mem_atomic_op' = AtomicNext.mem_atomic_op
  /\ mem_request_valid' = AtomicNext.mem_request_valid

\* the same edge in the memory response logic of tb_atomic_unit
TbMemoryEdge ==
  IF mem_request_valid = TRUE /\ mem_ready = TRUE
  THEN IF mem_write_en = FALSE
       THEN /\ mem_read_data' = memory[MemWord(mem_address)]
            /\ mem_response_valid' = TRUE
            /\ memory' = memory
       ELSE /\ memory' = [memory EXCEPT ![MemWord(mem_address)] = mem_write_data]
            /\ mem_response_valid' = TRUE
            /\ mem_read_data' = mem_read_data
  ELSE /\ mem_response_valid' = FALSE
       /\ UNCHANGED <<memory, mem_read_data>>

\* a request becomes the current request at this edge / is answered at it
AtomicStarts == current_state = "IDLE" /\ AtomicNext.current_state = "READ_MEM"
AtomicResponds == current_state = "RESPOND" /\ AtomicNext.current_state = "IDLE"

\* the tests read the memory word of a request before the unit works on it
\* (original_value)
TbRecordOriginal ==
  original_value' =
    IF AtomicStarts THEN memory[MemWord(AtomicNext.current_req.address)]
    ELSE original_value

\* atomic_request_t after reset: no field has been assigned
NoRequest ==
  [address |-> XVal, data |-> XVal, compare_data |-> XVal, op |-> XVal,
   warp_id |-> XVal, lane_id |-> XVal, valid |-> XVal]

\* reset of atomic_unit (lines 166-176) and the initial block of
\* tb_atomic_unit (tb_execution_unit.sv lines 624-642)
InitAtomic ==
  /\ current_state = "IDLE"
  /\ atomic_op_count = 0
  /\ atomic_contention_count = 0
  /\ address_valid = [i \in ReqIdx |-> FALSE]
  /\ active_addresses = [i \in ReqIdx |-> XVal]
  /\ pending_reqs = << >>
  /\ current_req = NoRequest
  /\ temp_data = XVal
  /\ orig_data = XVal
  /\ resp_data = XVal
  /\ resp_warp_id = XVal
  /\ resp_lane_id = XVal
  /\ resp_valid = FALSE
  /\ mem_address = XVal
  /\ mem_write_data = XVal
  /\ mem_write_en = FALSE           \* unknown: tested only under
  /\ mem_atomic_en = FALSE          \*   mem_request_valid
  /\ mem_atomic_op = XVal
  /\ mem_request_valid = FALSE      \* unknown: the if takes the else branch
  /\ memory = [i \in MemIdx |-> i % WordModulus]
  /\ mem_read_data = 0
  /\ mem_response_valid = FALSE
  /\ req_op = "ATOMIC_ADD"
  /\ req_address = 0
  /\ req_data = 0
  /\ req_compare_data = 0
  /\ req_warp_id = 0
  /\ req_lane_id = 0
  /\ req_valid = FALSE
  /\ resp_ready = TRUE
  /\ mem_ready = TRUE
  /\ original_value = 0
  /\ add_operands = << >>
  /\ add_returns = << >>

\* number of requests the tests submit in one run, one at a time
MaxAtomicOps == 2
\* number of ATOMIC_ADD requests test_request_contention submits
MaxAddOps == 3

\* the requests the tests submit: every operation on every address with every
\* operand; compare_data is left at its initial value except for ATOMIC_CAS
AtomicRequests ==
  {r \in [op : atomic_op_e, address : AtomicAddrs, data : Word,
          compare_data : Word, lane_id : {0}] :
     r.op # "ATOMIC_CAS" => r.compare_data = 0}

\* test_request_contention: ATOMIC_ADD requests of several lanes to one
\* address
ContentionAddr == 0
AddRequests ==
  [op : {"ATOMIC_ADD"}, address : {ContentionAddr}, data : Word,
   compare_data : {0}, lane_id : AtomicLanes]

\* the environment drives the pins for the next edge
AtomicDriveRequest(r) ==
  /\ req_op' = r.op
  /\ req_address' = r.address
  /\ req_data' = r.data
  /\ req_compare_data' = r.compare_data
  /\ req_warp_id' = 0
  /\ req_lane_id' = r.lane_id
  /\ req_valid' = TRUE

AtomicDriveIdle ==
  /\ req_op' = "ATOMIC_ADD"
  /\ req_address' = 0
  /\ req_data' = 0
  /\ req_compare_data' = 0
  /\ req_warp_id' = 0
  /\ req_lane_id' = 0
  /\ req_valid' = FALSE

AtomicDriveHandshake ==
  /\ resp_ready' = TRUE
  /\ mem_ready' \in BOOLEAN

\* a clock edge after which no request is presented
AtomicClockQuiet ==
  /\ UNCHANGED <<barrierVars, memVars, schedVars, engineVars, regVars,
                 dpiVars, smVars, nestVars, mcVars>>
  /\ AtomicEdge /\ TbMemoryEdge /\ TbRecordOriginal
  /\ UNCHANGED <<add_operands, add_returns>>
  /\ AtomicDriveIdle /\ AtomicDriveHandshake

\* a clock edge after which a test presents a request; the tests of
\* tb_atomic_unit wait for the response of a request before they present the
\* next one, so the unit is ready when the request is presented
AtomicClockRequest ==
  /\ UNCHANGED <<barrierVars, memVars, schedVars, engineVars, regVars,
                 dpiVars, smVars, nestVars, mcVars>>
  /\ AtomicNext.current_state = "IDLE"
  /\ atomic_op_count < MaxAtomicOps
  /\ AtomicEdge /\ TbMemoryEdge /\ TbRecordOriginal
  /\ UNCHANGED <<add_operands, add_returns>>
  /\ (\E r \in AtomicRequests : AtomicDriveRequest(r)) /\ AtomicDriveHandshake

NextAtomic == AtomicClockQuiet \/ AtomicClockRequest

\* test_request_contention records the operands in the order the unit takes
\* them and the data of the responses in the order they come
TbRecordContention ==
  /\ add_operands' =
       IF AtomicStarts THEN Append(add_operands, AtomicNext.current_req.data)
       ELSE add_operands
  /\ add_returns' =
       IF AtomicResponds THEN Append(add_returns, AtomicNext.resp_data)
       ELSE add_returns

\* a request is on the pins and this edge does not take it
RequestWaits == req_valid /\ ~(current_state = "IDLE" /\ req_ready)
\* requests taken after this edge, the one on the pins included
AddsSubmitted ==
  AtomicNext.atomic_op_count + (IF RequestWaits THEN 1 ELSE 0)

\* test_request_contention: the requesters present ATOMIC_ADD requests to one
\* address whether the unit is busy or not, and hold a request on the pins
\* until the unit takes it
AddClockHold ==
  /\ UNCHANGED <<barrierVars, memVars, schedVars, engineVars, regVars,
                 dpiVars, smVars, nestVars, mcVars>>
  /\ RequestWaits
  /\ AtomicEdge /\ TbMemoryEdge /\ TbRecordOriginal /\ TbRecordContention
  /\ UNCHANGED <<req_op, req_address, req_data, req_compare_data, req_warp_id,
                 req_lane_id, req_valid>>
  /\ AtomicDriveHandshake

AddClockQuiet ==
  /\ UNCHANGED <<barrierVars, memVars, schedVars, engineVars, regVars,
                 dpiVars, smVars, nestVars, mcVars>>
  /\ ~RequestWaits
  /\ AtomicEdge /\ TbMemoryEdge /\ TbRecordOriginal /\ TbRecordContention
  /\ AtomicDriveIdle /\ AtomicDriveHandshake

AddClockRequest ==
  /\ UNCHANGED <<barrierVars, memVars, schedVars, engineVars, regVars,
                 dpiVars, smVars, nestVars, mcVars>>
  /\ ~RequestWaits
  /\ AddsSubmitted < MaxAddOps
  /\ AtomicEdge /\ TbMemoryEdge /\ TbRecordOriginal /\ TbRecordContention
  /\ (\E r \in AddRequests : AtomicDriveRequest(r)) /\ AtomicDriveHandshake

NextAtomicAdd == AddClockHold \/ AddClockQuiet \/ AddClockRequest

\* A consumer that is not always ready: resp_ready is driven high or low for
\* each cycle; the requests are the ATOMIC_ADD requests, presented while the
\* unit is ready, and the memory is always ready.
ConsumerClockQuiet ==
  /\ UNCHANGED <<barrierVars, memVars, schedVars, engineVars, regVars,
                 dpiVars, smVars, nestVars, mcVars>>
  /\ AtomicEdge /\ TbMemoryEdge /\ TbRecordOriginal
  /\ UNCHANGED <<add_operands, add_returns>>
  /\ AtomicDriveIdle
  /\ resp_ready' \in BOOLEAN
  /\ mem_ready' = TRUE

ConsumerClockRequest ==
  /\ UNCHANGED <<barrierVars, memVars, schedVars, engineVars, regVars,
                 dpiVars, smVars, nestVars, mcVars>>
  /\ AtomicNext.current_state = "IDLE"
  /\ atomic_op_count < MaxAtomicOps
  /\ AtomicEdge /\ TbMemoryEdge /\ TbRecordOriginal
  /\ UNCHANGED <<add_operands, add_returns>>
  /\ \E r \in AddRequests : AtomicDriveRequest(r)
  /\ resp_ready' \in BOOLEAN
  /\ mem_ready' = TRUE

NextAtomicConsumer == ConsumerClockQuiet \/ ConsumerClockRequest

(***************************************************************************)
(* MemoryModel (memory_model.cpp)                                          *)
(***************************************************************************)

\* CacheConfig, scaled down: the constructor takes total_size, line_size and
\* memory_latency and fixes associativity
TOTAL_SIZE == 32
LINE_SIZE == 8
ASSOCIATIVITY == 2
MEMORY_LATENCY == 2
\* width of an address (uint32_t)
ADDRESS_BITS == 32

\* static_cast<uint32_t>(std::log2(n))
RECURSIVE Log2(_)
Log2(n) == IF n <= 1 THEN 0 ELSE 1 + Log2(n \div 2)

NumSets == TOTAL_SIZE \div (LINE_SIZE * ASSOCIATIVITY)
SetBits == Log2(NumSets)
OffsetBits == Log2(LINE_SIZE)
SetIdx == 0 .. (NumSets - 1)
WayIdx == 0 .. (ASSOCIATIVITY - 1)
LineWords == 0 .. ((LINE_SIZE \div 4) - 1)

get_set_index(address) == (address \div (2 ^ OffsetBits)) % (2 ^ SetBits)
get_tag(address) == address \div (2 ^ (OffsetBits + SetBits))
\* address & (line_size - 1), line_size a power of two
get_offset(address) == address % LINE_SIZE

\* get_tag(0xFFFFFFFF) and get_offset(0xFFFFFFFF)
TagOfAllOnes == (2 ^ (ADDRESS_BITS - OffsetBits - SetBits)) - 1
OffsetOfAllOnes == LINE_SIZE - 1

\* x << count on uint32_t, where count is the mathematical value of an
\* unsigned expression that wraps modulo 2^32.  A count outside 0 .. 31 is
\* undefined: the shifter uses the five low bits of the count (x86-64,
\* AArch64) or shifts everything out (ARM), so the result is one of the two.
\* The operands of the model are small enough for no bit to be lost at the
\* top.
ShiftLeft(x, count) ==
  IF count \in 0 .. (ADDRESS_BITS - 1)
  THEN {x * (2 ^ count)}
  ELSE {x * (2 ^ (count % ADDRESS_BITS)), 0}

\* the address a dirty line is written back to, lines 128-129 (and 382-383,
\* 401-402)
WritebackAddresses(tag, set_index) ==
  {Bitwise(OrBit, hi, lo, ADDRESS_BITS) :
     hi \in ShiftLeft(tag, ADDRESS_BITS - TagOfAllOnes),
     lo \in ShiftLeft(set_index, OffsetOfAllOnes)}

\* main_memory_[addr] as an rvalue, and the map after operator[] has
\* inserted the key
MainWord(mem, addr) == IF addr \in DOMAIN mem THEN mem[addr] ELSE 0
MainStore(mem, addr, word) ==
  [a \in (DOMAIN mem) \cup {addr} |-> IF a = addr THEN word ELSE mem[a]]

\* CacheLine::CacheLine and MemoryModel::initialize
EmptyLine ==
  [tag |-> 0, data |-> [i \in LineWords |-> 0], valid |-> FALSE,
   dirty |-> FALSE, last_access |-> 0]

InitMemoryModel ==
  /\ sets_ = [s \in SetIdx |-> [w \in WayIdx |-> EmptyLine]]
  /\ main_memory_ = [a \in {} |-> 0]
  /\ stats_ = [reads |-> 0, writes |-> 0, hits |-> 0, misses |-> 0,
               evictions |-> 0]
  /\ current_cycle_ = 0
  /\ mm_request = [address |-> 0, is_write |-> FALSE, valid |-> FALSE]
  /\ mm_data = 0
  /\ writes = [a \in {} |-> 0]

select_victim(set) ==
  IF \E i \in WayIdx : ~set[i].valid
  THEN FirstIndex({i \in WayIdx : ~set[i].valid})
  ELSE FirstIndex({i \in WayIdx :
                     \A j \in WayIdx : set[i].last_access <= set[j].last_access})

calculate_access_latency(address, is_hit) ==
  IF is_hit THEN 1 ELSE MEMORY_LATENCY + (LINE_SIZE \div 16)

\* the statistics after lines 65-70 and 96-101 have counted an access
\* count_access without the count of hits
count_access_MissesOnly(is_write, hit) ==
  [stats_ EXCEPT
     !.reads = IF is_write THEN @ ELSE @ + 1,
     !.writes = IF is_write THEN @ + 1 ELSE @,
     !.misses = IF hit THEN @ ELSE @ + 1]

count_access(is_write, hit) ==
  [stats_ EXCEPT
     !.reads = IF is_write THEN @ ELSE @ + 1,
     !.writes = IF is_write THEN @ + 1 ELSE @,
     !.hits = IF hit THEN @ + 1 ELSE @,
     !.misses = IF hit THEN @ ELSE @ + 1]

\* handle_coherence, lines 353-371, applied to the sets s
\* handle_coherence without the test of the valid bit
handle_coherence_AnyLine(s, address) ==
  [i \in SetIdx |->
     [w \in WayIdx |->
        IF s[i][w].tag = get_tag(address)
        THEN [s[i][w] EXCEPT !.dirty = TRUE]
        ELSE s[i][w]]]

handle_coherence(s, address) ==
  [i \in SetIdx |->
     [w \in WayIdx |->
        IF s[i][w].valid /\ s[i][w].tag = get_tag(address)
        THEN [s[i][w] EXCEPT !.dirty = TRUE]
        ELSE s[i][w]]]

\* write-back of the dirty victim to victim_address, lines 130-132
WriteBack(mem, line, victim_address) ==
  [a \in (DOMAIN mem) \cup {victim_address + (i * 4) : i \in LineWords} |->
     IF \E i \in LineWords : a = victim_address + (i * 4)
     THEN line.data[(a - victim_address) \div 4]
     ELSE mem[a]]

\* the map after the loads of lines 138-141 have inserted their keys
LoadKeys(mem, base_address) ==
  [a \in (DOMAIN mem) \cup {base_address + (i * 4) : i \in LineWords} |->
     MainWord(mem, a)]

\* process_request(address, data, is_write), lines 59-162
process_request(address, data, is_write) ==
  LET physical_address == address          \* translate_address
      set_index == get_set_index(physical_address)
      tag == get_tag(physical_address)
      offset == get_offset(physical_address)
      set == sets_[set_index]
      hitWays == {i \in WayIdx : set[i].valid /\ set[i].tag = tag}
      hit == hitWays # {}
      hit_way == FirstIndex(hitWays)
      latency == calculate_access_latency(physical_address, hit)
      victim_way == select_victim(set)
      victim == set[victim_way]
      evicts == victim.valid /\ victim.dirty
      base_address == physical_address - get_offset(physical_address)
  IN
  /\ address % 4 = 0                       \* check_alignment
  /\ stats_' = [count_access(is_write, hit) EXCEPT
                  !.evictions = IF ~hit /\ evicts THEN @ + 1 ELSE @]
  /\ \E victim_address \in WritebackAddresses(victim.tag, set_index) :
       LET memAfterEviction ==
             IF ~hit /\ evicts
             THEN WriteBack(main_memory_, victim, victim_address)
             ELSE main_memory_
           loaded == [i \in LineWords |->
                        MainWord(memAfterEviction, base_address + (i * 4))]
           hitLine == [set[hit_way] EXCEPT
                         !.last_access = current_cycle_,
                         !.data = IF is_write
                                  THEN [@ EXCEPT ![offset \div 4] = data]
                                  ELSE @,
                         !.dirty = IF is_write THEN TRUE ELSE @]
           missLine == [tag |-> tag,
                        data |-> IF is_write
                                 THEN [loaded EXCEPT ![offset \div 4] = data]
                                 ELSE loaded,
                        valid |-> TRUE,
                        dirty |-> is_write,
                        last_access |-> current_cycle_]
           newSets == IF hit
                      THEN [sets_ EXCEPT ![set_index][hit_way] = hitLine]
                      ELSE [sets_ EXCEPT ![set_index][victim_way] = missLine]
       IN
       /\ main_memory_' = IF hit THEN main_memory_
                          ELSE LoadKeys(memAfterEviction, base_address)
       /\ sets_' = handle_coherence(newSets, physical_address)
       /\ mm_data' = IF is_write THEN data
                     ELSE IF hit THEN set[hit_way].data[offset \div 4]
                     ELSE loaded[offset \div 4]
  /\ current_cycle_' = current_cycle_ + latency
  /\ mm_request' = [address |-> address, is_write |-> is_write, valid |-> TRUE]
  /\ writes' = IF is_write THEN MainStore(writes, address, data) ELSE writes

\* number of requests in one run
MaxMemOps == 4
\* the aligned addresses requested: three lines of set 0 (one more than the
\* set has ways), both words of one of them, and a line of set 1
MemAddrs == {0, 4, 8, 16, 32}
MemData == {1, 2}

MemRead ==
  /\ UNCHANGED <<barrierVars, atomicVars, schedVars, engineVars, regVars,
                 dpiVars, smVars, nestVars, mcVars>>
  /\ stats_.reads + stats_.writes < MaxMemOps
  /\ \E address \in MemAddrs : process_request(address, 0, FALSE)

MemWrite ==
  /\ UNCHANGED <<barrierVars, atomicVars, schedVars, engineVars, regVars,
                 dpiVars, smVars, nestVars, mcVars>>
  /\ stats_.reads + stats_.writes < MaxMemOps
  /\ \E address \in MemAddrs, data \in MemData :
       process_request(address, data, TRUE)

NextMemory == MemRead \/ MemWrite

\* lookup_cache(address, data), lines 176-189: the ways that hold the address
lookup_cache(address) ==
  {w \in WayIdx : /\ sets_[get_set_index(address)][w].valid
                  /\ sets_[get_set_index(address)][w].tag = get_tag(address)}

\* read_instruction(address), lines 164-174
read_instruction(address) ==
  IF lookup_cache(address) # {}
  THEN /\ mm_data' = sets_[get_set_index(address)]
                           [FirstIndex(lookup_cache(address))]
                           .data[get_offset(address) \div 4]
       /\ mm_request' = [address |-> address, is_write |-> FALSE,
                         valid |-> TRUE]
       /\ UNCHANGED <<sets_, main_memory_, stats_, current_cycle_, writes>>
  ELSE process_request(address, 0, FALSE)

\* update_cache(address, data), lines 191-208
update_cache(address, data) ==
  IF lookup_cache(address) # {}
  THEN /\ sets_' = [sets_ EXCEPT
                      ![get_set_index(address)]
                       [FirstIndex(lookup_cache(address))] =
                         [@ EXCEPT !.data[get_offset(address) \div 4] = data,
                                   !.dirty = TRUE,
                                   !.last_access = current_cycle_]]
       /\ mm_data' = data
       /\ mm_request' = [address |-> address, is_write |-> TRUE,
                         valid |-> TRUE]
       /\ writes' = MainStore(writes, address, data)
       /\ UNCHANGED <<main_memory_, stats_, current_cycle_>>
  ELSE process_request(address, data, TRUE)

\* invalidate_cache_line(address), lines 373-392: every way of the set that
\* holds the address (at most one does) is written back if dirty and
\* invalidated
invalidate_cache_line(address) ==
  LET set_index == get_set_index(address)
      held == lookup_cache(address)
      way == FirstIndex(held)
  IN
  /\ sets_' = [sets_ EXCEPT
                 ![set_index] =
                    [w \in WayIdx |->
                       IF w \in held
                       THEN [@[w] EXCEPT !.valid = FALSE, !.dirty = FALSE]
                       ELSE @[w]]]
  /\ IF held # {} /\ sets_[set_index][way].dirty
     THEN \E base_address \in
               WritebackAddresses(sets_[set_index][way].tag, set_index) :
            main_memory_' =
              WriteBack(main_memory_, sets_[set_index][way], base_address)
     ELSE main_memory_' = main_memory_
  /\ mm_request' = [mm_request EXCEPT !.valid = FALSE]
  /\ UNCHANGED <<stats_, current_cycle_, mm_data, writes>>

\* evict_cache_line(set_index, way), lines 394-412
evict_cache_line(set_index, way) ==
  LET line == sets_[set_index][way] IN
  /\ IF line.valid /\ line.dirty
     THEN \E base_address \in WritebackAddresses(line.tag, set_index) :
            main_memory_' = WriteBack(main_memory_, line, base_address)
     ELSE main_memory_' = main_memory_
  /\ sets_' = [sets_ EXCEPT ![set_index][way] =
                 [@ EXCEPT !.valid = FALSE, !.dirty = FALSE]]
  /\ stats_' = [stats_ EXCEPT !.evictions = @ + 1]
  /\ mm_request' = [mm_request EXCEPT !.valid = FALSE]
  /\ UNCHANGED <<current_cycle_, mm_data, writes>>

\* number of requests that reach process_request and of evict_cache_line
\* calls in one run of the cache-management calls
MaxCacheOps == 3
MaxEvictions == 1
\* the addresses of the cache-management calls: two lines of set 0 and one
\* of set 1
OpAddrs == {0, 16, 8}

MemReadInstruction ==
  /\ UNCHANGED <<barrierVars, atomicVars, schedVars, engineVars, regVars,
                 dpiVars, smVars, nestVars, mcVars>>
  /\ stats_.reads + stats_.writes < MaxCacheOps
  /\ \E address \in OpAddrs : read_instruction(address)

MemUpdateCache ==
  /\ UNCHANGED <<barrierVars, atomicVars, schedVars, engineVars, regVars,
                 dpiVars, smVars, nestVars, mcVars>>
  /\ stats_.reads + stats_.writes < MaxCacheOps
  /\ \E address \in OpAddrs : update_cache(address, 1)

MemInvalidate ==
  /\ UNCHANGED <<barrierVars, atomicVars, schedVars, engineVars, regVars,
                 dpiVars, smVars, nestVars, mcVars>>
  /\ \E address \in OpAddrs : invalidate_cache_line(address)

MemEvict ==
  /\ UNCHANGED <<barrierVars, atomicVars, schedVars, engineVars, regVars,
                 dpiVars, smVars, nestVars, mcVars>>
  /\ stats_.evictions < MaxEvictions
  /\ \E set_index \in SetIdx, way \in WayIdx :
       evict_cache_line(set_index, way)

MemProcessRequest ==
  /\ UNCHANGED <<barrierVars, atomicVars, schedVars, engineVars, regVars,
                 dpiVars, smVars, nestVars, mcVars>>
  /\ stats_.reads + stats_.writes < MaxCacheOps
  /\ \E address \in OpAddrs, is_write \in BOOLEAN :
       process_request(address, IF is_write THEN 1 ELSE 0, is_write)

NextMemoryOps ==
  \/ MemProcessRequest \/ MemReadInstruction \/ MemUpdateCache
  \/ MemInvalidate \/ MemEvict

(***************************************************************************)
(* warp_scheduler and the fields of instruction_decoder it reads           *)
(***************************************************************************)

\* warp_scheduler #(.NUM_WARPS) (default 32, tb_warp_scheduler 8)
NUM_WARPS == 2
\* depth of the divergence stack, [8-1:0], and of its 3-bit stack pointer
STACK_DEPTH == 8
\* width of warp_state_t.pc, scaled down (the pc only counts dispatches)
PcBits == 4

Warps == 0 .. (NUM_WARPS - 1)
StackIdx == 0 .. (STACK_DEPTH - 1)


\* thread masks: '1 and '0
MaskAll == "FFFFFFFF"
MaskNone == "00000000"

\* instruction_in as the decoder sees it: instruction[31:28] and [8:5]
BR_ALL == 6
SYNC_BARRIER == 0
NopInstruction == [instr_type |-> "INSTR_ALU", op_bits |-> 0]

\* instruction_decoder, lines 147-197
is_branch(instr) == instr.instr_type = "INSTR_BRANCH"
thread_diverge(instr) ==
  \/ instr.instr_type = "INSTR_BRANCH" /\ (instr.op_bits % 8) # BR_ALL
  \/ instr.instr_type = "INSTR_CONTROL" /\ (instr.op_bits % 4) = 2
thread_converge(instr) ==
  \/ instr.instr_type = "INSTR_SYNC" /\ (instr.op_bits % 4) = SYNC_BARRIER
  \/ instr.instr_type = "INSTR_CONTROL" /\ (instr.op_bits % 4) = 1

\* warp_ready_mask, lines 71-77, as the set of warps whose bit is set
warp_ready_mask ==
  {i \in Warps : /\ warp_array[i].state = "WARP_READY"
                 /\ warp_array[i].valid
                 /\ i \notin barrier_stall_mask}

\* round-robin selection, lines 80-94
RoundRobinOffsets == {i \in 0 .. (NUM_WARPS - 1) :
                        ((rr_pointer + i) % NUM_WARPS) \in warp_ready_mask}
found_warp == RoundRobinOffsets # {}
\* the selection without the round-robin pointer: the lowest ready warp
current_warp_LowestReady ==
  IF warp_ready_mask # {} THEN FirstIndex(warp_ready_mask) ELSE 0

current_warp ==
  IF found_warp THEN (rr_pointer + FirstIndex(RoundRobinOffsets)) % NUM_WARPS
  ELSE 0
scheduling_active == found_warp /\ execution_ready /\ ~memory_stall

\* output assignments, lines 196-199
instruction_out == IF scheduling_active THEN instruction_in ELSE NopInstruction
warp_id_out == current_warp
warp_valid == scheduling_active

\* reset, lines 107-121, and the initial block of tb_warp_scheduler
InitScheduler ==
  /\ warp_array = [i \in Warps |->
                     [pc |-> 0, mask |-> MaskAll, state |-> "WARP_READY",
                      warp_id |-> i, valid |-> TRUE]]
  /\ rr_pointer = 0
  /\ divergence_stack = [i \in Warps |-> [j \in StackIdx |-> MaskNone]]
  /\ stack_pointer = [i \in Warps |-> 0]
  /\ barrier_stall_mask = {}
  /\ instruction_in = NopInstruction
  /\ instruction_valid = FALSE
  /\ execution_ready = TRUE
  /\ memory_stall = FALSE
  /\ stalled_warp_id = 0
  /\ barrier_stall = FALSE
  /\ barrier_warp_mask = {}
  /\ barrier_release_valid = FALSE
  /\ barrier_release_warp_mask = {}

\* the warp an accepted instruction is allocated to, lines 151-163
AllocatedWarp ==
  IF instruction_valid        \* instruction_ready is tied high, line 200
  THEN FirstIndex({i \in Warps : ~warp_array[i].valid})
  ELSE -1

\* what the divergence block, lines 167-191, does at this edge
Diverges ==
  /\ scheduling_active
  /\ is_branch(instruction_out) /\ thread_diverge(instruction_out)
  /\ stack_pointer[current_warp] < STACK_DEPTH
Converges ==
  /\ scheduling_active
  /\ thread_converge(instruction_out)
  /\ stack_pointer[current_warp] > 0

\* barrier_stall_mask after the edge, lines 129-135: the release assignment
\* is the last one
barrier_stall_mask_next ==
  IF barrier_release_valid
  THEN barrier_stall_mask \ barrier_release_warp_mask
  ELSE IF barrier_stall THEN barrier_stall_mask \cup barrier_warp_mask
  ELSE barrier_stall_mask

\* warp_array[i].state after the edge, lines 124-126, 138-142, 159
warp_state_next(i) ==
  IF i = AllocatedWarp THEN "WARP_READY"
  ELSE IF /\ barrier_release_valid
          /\ i \in barrier_release_warp_mask
          /\ warp_array[i].valid
  THEN "WARP_READY"
  ELSE IF memory_stall /\ i = stalled_warp_id THEN "WARP_STALLED"
  ELSE warp_array[i].state

\* one rising clock edge of warp_scheduler with rst_n high, lines 97-193
SchedulerEdge ==
  /\ rr_pointer' = IF scheduling_active THEN (current_warp + 1) % NUM_WARPS
                   ELSE rr_pointer
  /\ barrier_stall_mask' = barrier_stall_mask_next
  /\ warp_array' =
       [i \in Warps |->
          [pc |-> IF i = AllocatedWarp THEN 0
                  ELSE IF scheduling_active /\ i = current_warp
                  THEN (warp_array[i].pc + 4) % (2 ^ PcBits)
                  ELSE warp_array[i].pc,
           mask |-> IF Converges /\ i = current_warp
                    THEN divergence_stack[i][stack_pointer[i] - 1]
                    ELSE IF i = AllocatedWarp THEN MaskAll
                    ELSE warp_array[i].mask,
           state |-> warp_state_next(i),
           warp_id |-> warp_array[i].warp_id,
           valid |-> IF i = AllocatedWarp THEN TRUE ELSE warp_array[i].valid]]
  /\ divergence_stack' =
       IF Diverges
       THEN [divergence_stack EXCEPT
               ![current_warp][stack_pointer[current_warp]] =
                 warp_array[current_warp].mask]
       ELSE divergence_stack
  /\ stack_pointer' =
       IF Converges
       THEN [stack_pointer EXCEPT ![current_warp] = @ - 1]
       ELSE IF Diverges
       THEN [stack_pointer EXCEPT ![current_warp] = (@ + 1) % STACK_DEPTH]
       ELSE stack_pointer

\* the environment drives the pins for the next edge
SchedDrive(er, ms, sw, bs, bwm, brv, brm) ==
  /\ instruction_in' = NopInstruction
  /\ instruction_valid' = TRUE
  /\ execution_ready' = er
  /\ memory_stall' = ms
  /\ stalled_warp_id' = sw
  /\ barrier_stall' = bs
  /\ barrier_warp_mask' = bwm
  /\ barrier_release_valid' = brv
  /\ barrier_release_warp_mask' = brm

NonEmptyWarpMasks == (SUBSET Warps) \ {{}}

\* a clock edge after which neither a barrier stall nor a release is driven
SchedClock ==
  /\ UNCHANGED <<barrierVars, atomicVars, memVars, engineVars, regVars,
                 dpiVars, smVars, nestVars, mcVars>>
  /\ SchedulerEdge
  /\ \E er \in BOOLEAN :
       \/ SchedDrive(er, FALSE, 0, FALSE, {}, FALSE, {})
       \/ \E sw \in Warps : SchedDrive(er, TRUE, sw, FALSE, {}, FALSE, {})

\* a clock edge after which a barrier stall, a release or both are driven
SchedClockBarrier ==
  /\ UNCHANGED <<barrierVars, atomicVars, memVars, engineVars, regVars,
                 dpiVars, smVars, nestVars, mcVars>>
  /\ SchedulerEdge
  /\ \E er \in BOOLEAN, ms \in BOOLEAN, sw \in Warps :
       /\ ~ms => sw = 0
       /\ \/ \E bwm \in NonEmptyWarpMasks :
               SchedDrive(er, ms, sw, TRUE, bwm, FALSE, {})
          \/ \E brm \in NonEmptyWarpMasks :
               SchedDrive(er, ms, sw, FALSE, {}, TRUE, brm)
          \/ \E bwm \in NonEmptyWarpMasks, brm \in NonEmptyWarpMasks :
               SchedDrive(er, ms, sw, TRUE, bwm, TRUE, brm)

NextScheduler == SchedClock \/ SchedClockBarrier

\* tb_warp_scheduler leaves the barrier ports unconnected: they are never
\* high
NextSchedulerTb == SchedClock

\* instructions the front end presents: an ALU instruction, a conditional
\* branch (is_branch, thread_diverge) and a barrier synchronisation
\* (thread_converge)
BranchInstruction == [instr_type |-> "INSTR_BRANCH", op_bits |-> 0]
ConvergeInstruction == [instr_type |-> "INSTR_SYNC", op_bits |-> SYNC_BARRIER]
Instructions == {NopInstruction, BranchInstruction, ConvergeInstruction}

\* a clock edge after which the front end presents any of the instructions;
\* no stall and no barrier traffic
SchedClockInstr ==
  /\ UNCHANGED <<barrierVars, atomicVars, memVars, engineVars, regVars,
                 dpiVars, smVars, nestVars, mcVars>>
  /\ SchedulerEdge
  /\ instruction_in' \in Instructions
  /\ instruction_valid' = TRUE
  /\ execution_ready' \in BOOLEAN
  /\ memory_stall' = FALSE
  /\ stalled_warp_id' = 0
  /\ barrier_stall' = FALSE
  /\ barrier_warp_mask' = {}
  /\ barrier_release_valid' = FALSE
  /\ barrier_release_warp_mask' = {}

\* a diverging branch, a converging instruction, is dispatched for warp w in
\* the current cycle, lines 167-172 and 184
DivergingDispatch(w) ==
  /\ scheduling_active /\ current_warp = w
  /\ is_branch(instruction_out) /\ thread_diverge(instruction_out)
ConvergingDispatch(w) ==
  /\ scheduling_active /\ current_warp = w
  /\ thread_converge(instruction_out)

\* more unmatched divergences than the divergence stack has levels
TooDeep == STACK_DEPTH + 1

InitNest ==
  /\ nest_depth = [w \in Warps |-> 0]
  /\ nest = [w \in Warps |->
               [depth |-> 0, sp |-> 0, mask |-> MaskAll,
                pushes |-> 0, pops |-> 0]]

\* the divergences of warp w that no converging instruction has matched,
\* after the edge
nest_depth_next(w) ==
  IF nest_depth[w] = TooDeep THEN TooDeep
  ELSE IF DivergingDispatch(w) THEN nest_depth[w] + 1
  ELSE IF ConvergingDispatch(w) /\ nest_depth[w] > 0 THEN nest_depth[w] - 1
  ELSE nest_depth[w]

\* the run of warp w that is followed, after the edge: pushes diverging
\* branches, then pops converging instructions, with the stack pointer, the
\* mask and the depth before the first branch
nest_next(w) ==
  IF DivergingDispatch(w)
  THEN IF nest[w].pushes = 0 \/ nest[w].pops > 0
       THEN [depth |-> nest_depth[w], sp |-> stack_pointer[w],
             mask |-> warp_array[w].mask, pushes |-> 1, pops |-> 0]
       ELSE [nest[w] EXCEPT
               !.pushes = IF @ < TooDeep THEN @ + 1 ELSE @]
  ELSE IF ConvergingDispatch(w) /\ nest[w].pushes > 0
  THEN IF nest[w].pops = nest[w].pushes
       THEN [nest[w] EXCEPT !.pushes = 0, !.pops = 0]
       ELSE [nest[w] EXCEPT !.pops = @ + 1]
  ELSE nest[w]

\* a clock edge of a kernel in which warp 0 runs any sequence of diverging
\* branches and converging instructions and the other warps run NOPs; the
\* execution unit is always ready and there is no stall and no barrier
SchedClockNest ==
  /\ UNCHANGED <<barrierVars, atomicVars, memVars, engineVars, regVars,
                 dpiVars, smVars, mcVars>>
  /\ SchedulerEdge
  /\ nest_depth' = [w \in Warps |-> nest_depth_next(w)]
  /\ nest' = [w \in Warps |-> nest_next(w)]
  /\ instruction_valid' = TRUE
  /\ execution_ready' = TRUE
  /\ memory_stall' = FALSE
  /\ stalled_warp_id' = 0
  /\ barrier_stall' = FALSE
  /\ barrier_warp_mask' = {}
  /\ barrier_release_valid' = FALSE
  /\ barrier_release_warp_mask' = {}
  /\ instruction_in' \in IF current_warp' = 0
                         THEN {BranchInstruction, ConvergeInstruction}
                         ELSE {NopInstruction}

(***************************************************************************)
(* SimulationEngine (sim_engine.cpp, sim_engine.h)                         *)
(***************************************************************************)

\* SimConfig::num_warps
num_warps == 4
\* the cycle limit of run(), line 77 (1000000), scaled down
MAX_CYCLES == 16
\* TRACE_RESERVE_SIZE (10000), scaled down
TRACE_RESERVE_SIZE == 12
EngineWarps == 0 .. (num_warps - 1)

\* SimEvent::operator>, the comparison of std::greater<SimEvent>
\* SimTime is an unsigned integer of SimTimeBits bits (uint64_t in the
\* source); sums and differences of times wrap
SimTimeBits == 8
SimTimeModulus == 2 ^ SimTimeBits

EventAfter(a, b) == a.time > b.time

\* std::push_heap and std::pop_heap as libstdc++ (the g++ of the build)
\* implements them, on the vector h with 0-based positions: __push_heap
\* with topIndex 0, and __adjust_heap
RECURSIVE push_heap(_, _, _)
push_heap(h, holeIndex, value) ==
  LET parent == (holeIndex - 1) \div 2 IN
  IF holeIndex > 0 /\ EventAfter(h[parent + 1], value)
  THEN push_heap([h EXCEPT ![holeIndex + 1] = h[parent + 1]], parent, value)
  ELSE [h EXCEPT ![holeIndex + 1] = value]

RECURSIVE adjust_heap(_, _, _, _)
adjust_heap(h, holeIndex, len, value) ==
  LET secondChild == 2 * (holeIndex + 1) IN
  IF holeIndex < (len - 1) \div 2
  THEN LET child == IF EventAfter(h[secondChild + 1], h[secondChild])
                    THEN secondChild - 1 ELSE secondChild
       IN adjust_heap([h EXCEPT ![holeIndex + 1] = h[child + 1]],
                      child, len, value)
  ELSE IF len % 2 = 0 /\ holeIndex = (len - 2) \div 2
  THEN push_heap([h EXCEPT ![holeIndex + 1] = h[secondChild]],
                 secondChild - 1, value)
  ELSE push_heap(h, holeIndex, value)

\* event_queue_.pop(): pop_heap, then pop_back
queue_pop(q) ==
  IF Len(q) <= 1 THEN << >>
  ELSE adjust_heap(SubSeq(q, 1, Len(q) - 1), 0, Len(q) - 1, q[Len(q)])

\* schedule_event, lines 180-187, on the queue q at time now; seq numbers the
\* events in the order they are scheduled and is read by no operation
\* schedule_event that ignores the delay
schedule_event_NoDelay(q, now, type, delay, data, seq) ==
  LET event == [type |-> type, time |-> now, data |-> data, seq |-> seq]
  IN push_heap(Append(q, event), Len(q), event)

schedule_event(q, now, type, delay, data, seq) ==
  LET event == [type |-> type, time |-> (now + delay) % SimTimeModulus,
                data |-> data, seq |-> seq]
  IN push_heap(Append(q, event), Len(q), event)

\* the initial events of initialize(), lines 51-54, scheduled at time now for
\* warps warp_id .. num_warps - 1
RECURSIVE initial_events(_, _, _)
initial_events(q, now, warp_id) ==
  IF warp_id >= num_warps THEN q
  ELSE initial_events(
         schedule_event(q, now, "INSTRUCTION_FETCH", 0, warp_id, warp_id),
         now, warp_id + 1)

\* log_event, lines 237-268
log_event(trace, event) ==
  IF Len(trace) < TRACE_RESERVE_SIZE
  THEN Append(trace,
              [time |-> event.time, type |-> event.type,
               warp_id |-> IF event.type \in {"INSTRUCTION_FETCH",
                                              "WARP_COMPLETE"}
                           THEN event.data
                           ELSE IF event.type \in {"MEMORY_REQUEST",
                                                   "MEMORY_RESPONSE"}
                           THEN event.data.warp_id
                           ELSE 0,
               address |-> IF event.type \in {"MEMORY_REQUEST",
                                              "MEMORY_RESPONSE"}
                           THEN event.data.address ELSE 0,
               data |-> IF event.type \in {"MEMORY_REQUEST",
                                           "MEMORY_RESPONSE"}
                        THEN event.data.data ELSE 0])
  ELSE trace

\* the constructor, lines 14-32
InitEngine ==
  /\ running_ = FALSE
  /\ current_time_ = 0
  /\ event_queue_ = << >>
  /\ warp_states_ = [w \in EngineWarps |-> [pc |-> 0, active |-> TRUE]]
  /\ simulation_trace_ = << >>
  /\ instructions_executed = 0
  /\ engine_pc = "constructed"
  /\ completed_runs = 0
  /\ prev_trace = << >>
  /\ next_seq = 0

\* MemoryModel::initialize, part_006 lines 38-57
memory_initialize ==
  /\ sets_' = [s \in SetIdx |-> [w \in WayIdx |-> EmptyLine]]
  /\ main_memory_' = [a \in {} |-> 0]
  /\ stats_' = [reads |-> 0, writes |-> 0, hits |-> 0, misses |-> 0,
                evictions |-> 0]
  /\ current_cycle_' = 0
  /\ mm_request' = [address |-> 0, is_write |-> FALSE, valid |-> FALSE]
  /\ mm_data' = 0
  /\ writes' = [a \in {} |-> 0]

\* number of runs of one engine
MaxRuns == 3

\* initialize(), lines 38-55
\* initialize() without the reset of current_time_
initialize_KeepsTime ==
  /\ current_time_' = current_time_
  /\ instructions_executed' = 0
  /\ event_queue_' = initial_events(<< >>, current_time_', 0)
  /\ simulation_trace_' = << >>
  /\ memory_initialize
  /\ UNCHANGED <<running_, warp_states_>>

initialize ==
  /\ current_time_' = 0
  /\ instructions_executed' = 0
  /\ event_queue_' = initial_events(<< >>, current_time_', 0)
  /\ simulation_trace_' = << >>
  /\ memory_initialize
  /\ UNCHANGED <<running_, warp_states_>>

EngineInitialize ==
  /\ UNCHANGED <<barrierVars, atomicVars, schedVars, regVars, dpiVars, smVars,
                 nestVars, mcVars>>
  /\ engine_pc \in {"constructed", "returned"}
  /\ completed_runs < MaxRuns
  /\ initialize
  /\ engine_pc' = "initialized"
  /\ prev_trace' = IF engine_pc = "returned" THEN simulation_trace_
                   ELSE prev_trace
  /\ next_seq' = num_warps
  /\ UNCHANGED completed_runs

\* run() is entered, line 58
EngineRunEnter ==
  /\ UNCHANGED <<barrierVars, atomicVars, schedVars, memVars, regVars,
                 dpiVars, smVars, nestVars, mcVars>>
  /\ engine_pc = "initialized"
  /\ running_' = TRUE
  /\ engine_pc' = "running"
  /\ UNCHANGED <<current_time_, event_queue_, warp_states_, simulation_trace_,
                 instructions_executed, completed_runs, prev_trace, next_seq>>

\* the end condition of run(), lines 77-79, on the warp states ws at time now
end_condition(ws, now) ==
  now >= MAX_CYCLES \/ \A w \in EngineWarps : ~ws[w].active

\* one iteration of the loop of run(), lines 60-82, with process_event,
\* lines 88-118.  The static instance pointers of the callbacks are never
\* assigned (lines 284, 293), so instruction_complete_callback does nothing.
EngineRunIteration ==
  LET event == event_queue_[1]
      now == event.time
      popped == queue_pop(event_queue_)
      warp_id == event.data
      all_complete ==
        \A w \in EngineWarps : w # warp_id => ~warp_states_[w].active
  IN
  /\ UNCHANGED <<barrierVars, atomicVars, schedVars, regVars, dpiVars, smVars,
                 nestVars, mcVars>>
  /\ engine_pc = "running"
  /\ running_ /\ event_queue_ # << >>
  /\ current_time_' = now
  /\ simulation_trace_' = log_event(simulation_trace_, event)
  /\ CASE event.type = "INSTRUCTION_FETCH" /\ warp_states_[warp_id].active ->
            \* process_instruction_fetch, lines 149-168
            /\ read_instruction(warp_states_[warp_id].pc)
            /\ instructions_executed' = instructions_executed + 1
            /\ warp_states_' = [warp_states_ EXCEPT ![warp_id].pc = @ + 4]
            /\ event_queue_' = schedule_event(popped, now, "INSTRUCTION_FETCH",
                                              4, warp_id, next_seq)
            /\ next_seq' = next_seq + 1
            /\ running_' = ~end_condition(warp_states_', now)
       [] event.type = "MEMORY_RESPONSE" ->
            \* process_memory_response, lines 139-147
            /\ event_queue_' = schedule_event(popped, now, "INSTRUCTION_FETCH",
                                              1, event.data.warp_id, next_seq)
            /\ next_seq' = next_seq + 1
            /\ running_' = ~end_condition(warp_states_, now)
            /\ UNCHANGED <<memVars, warp_states_, instructions_executed>>
       [] event.type = "WARP_COMPLETE" ->
            \* process_warp_complete, lines 170-178
            /\ warp_states_' = [warp_states_ EXCEPT ![warp_id].active = FALSE]
            /\ event_queue_' =
                 IF all_complete
                 THEN schedule_event(popped, now, "SIMULATION_END", 1, 0,
                                     next_seq)
                 ELSE popped
            /\ next_seq' = IF all_complete THEN next_seq + 1 ELSE next_seq
            /\ running_' = ~end_condition(warp_states_', now)
            /\ UNCHANGED <<memVars, instructions_executed>>
       [] OTHER ->
            \* SIMULATION_END, or a fetch for an inactive warp
            /\ event_queue_' = popped
            /\ running_' = ( /\ event.type # "SIMULATION_END"
                             /\ ~end_condition(warp_states_, now) )
            /\ UNCHANGED <<memVars, warp_states_, instructions_executed,
                           next_seq>>
  /\ UNCHANGED <<engine_pc, completed_runs, prev_trace>>

\* the loop of run() ends and run() returns, lines 60 and 84-86
EngineRunReturn ==
  /\ UNCHANGED <<barrierVars, atomicVars, schedVars, memVars, regVars,
                 dpiVars, smVars, nestVars, mcVars>>
  /\ engine_pc = "running"
  /\ ~(running_ /\ event_queue_ # << >>)
  /\ engine_pc' = "returned"
  /\ completed_runs' = completed_runs + 1
  /\ UNCHANGED <<running_, current_time_, event_queue_, warp_states_,
                 simulation_trace_, instructions_executed, prev_trace,
                 next_seq>>

NextEngine ==
  EngineInitialize \/ EngineRunEnter \/ EngineRunIteration \/ EngineRunReturn

(***************************************************************************)
(* DPIWrapper (dpi_wrapper.cpp)                                            *)
(***************************************************************************)

InitDpi ==
  /\ initialized_ = FALSE
  /\ dpi_current_cycle_ = 0
  /\ dpi_lines = {}
  /\ dpi_requests = 0

\* DPIWrapper::initialize, lines 27-51, on a wrapper not yet initialized:
\* the engine and the wrapper's own memory model are constructed and
\* initialized
DpiInitialize ==
  /\ UNCHANGED <<barrierVars, atomicVars, schedVars, regVars, smVars,
                 nestVars, mcVars>>
  /\ ~initialized_
  /\ engine_pc = "constructed"
  /\ initialize
  /\ engine_pc' = "initialized"
  /\ next_seq' = num_warps
  /\ initialized_' = TRUE
  /\ dpi_current_cycle_' = 0
  /\ dpi_lines' = {}
  /\ UNCHANGED <<completed_runs, prev_trace, dpi_requests>>

\* DPIWrapper::get_memory_response, lines 97-110: run() is called on the
\* engine, whatever has run before
DpiGetMemoryResponse ==
  /\ UNCHANGED <<barrierVars, atomicVars, schedVars, memVars, regVars, smVars,
                 nestVars, mcVars>>
  /\ initialized_
  /\ engine_pc \in {"initialized", "returned"}
  /\ completed_runs < MaxRuns
  /\ running_' = TRUE
  /\ engine_pc' = "running"
  /\ UNCHANGED <<current_time_, event_queue_, warp_states_, simulation_trace_,
                 instructions_executed, completed_runs, prev_trace, next_seq>>
  /\ UNCHANGED dpiVars

\* the value MemoryModel::process_request returns, part_006 lines 150-161,
\* for the wrapper's memory model: the requests of DpiAddrs lie in one cache
\* line, which is a miss when first requested and a hit afterwards
dpi_completion_time(address) ==
  LET base_address == address - (address % LINE_SIZE)
  IN  dpi_current_cycle_
        + calculate_access_latency(address, base_address \in dpi_lines)

MaxDpiRequests == 2
DpiAddrs == {0, 4}

\* DPIWrapper::process_memory_request, lines 61-95, between two calls of
\* run(); get_current_time() returns current_time_
DpiProcessMemoryRequest ==
  /\ UNCHANGED <<barrierVars, atomicVars, schedVars, memVars, regVars, smVars,
                 nestVars, mcVars>>
  /\ initialized_
  /\ engine_pc \in {"initialized", "returned"}
  /\ dpi_requests < MaxDpiRequests
  /\ dpi_requests' = dpi_requests + 1
  /\ \E address \in DpiAddrs, is_write \in BOOLEAN :
       LET completion_time == dpi_completion_time(address)
           delay == (completion_time + SimTimeModulus - current_time_)
                      % SimTimeModulus
           transaction == [warp_id |-> 0, address |-> address, data |-> 0]
       IN  /\ dpi_current_cycle_' = completion_time
           /\ dpi_lines' = dpi_lines \cup {address - (address % LINE_SIZE)}
           /\ event_queue_' =
                IF is_write THEN event_queue_
                ELSE schedule_event(event_queue_, current_time_,
                                    "MEMORY_RESPONSE", delay, transaction,
                                    next_seq)
           /\ next_seq' = IF is_write THEN next_seq ELSE next_seq + 1
  /\ UNCHANGED <<running_, current_time_, warp_states_, simulation_trace_,
                 instructions_executed, engine_pc, completed_runs,
                 prev_trace, initialized_>>

NextDpi ==
  \/ DpiInitialize
  \/ DpiGetMemoryResponse
  \/ DpiProcessMemoryRequest
  \/ EngineRunIteration
  \/ EngineRunReturn

(***************************************************************************)
(* register_file (register_file.sv)                                        *)
(***************************************************************************)

\* parameters NUM_REGISTERS, THREADS_PER_WARP and NUM_WARPS, lines 15-17
NUM_REGISTERS == 3
THREADS_PER_WARP == 2
REGFILE_NUM_WARPS == 2

RfRegs == 0 .. (NUM_REGISTERS - 1)
RfLanes == 0 .. (THREADS_PER_WARP - 1)
RfWarps == 0 .. (REGFILE_NUM_WARPS - 1)
ZeroData == [t \in RfLanes |-> 0]

\* the write of lines 61-69 with every lane written, whatever the mask
write_register_AllLanes ==
  IF rd_write_en
  THEN [register_file EXCEPT ![rd_warp_id][rd_addr] = rd_data]
  ELSE register_file

\* write operation, lines 61-69: the register file after the clock edge
write_register ==
  IF rd_write_en
  THEN [register_file EXCEPT
          ![rd_warp_id][rd_addr] =
            [t \in RfLanes |-> IF t \in rd_thread_mask THEN rd_data[t]
                               ELSE @[t]]]
  ELSE register_file

\* register scoreboarding, lines 91-101: the set of line 94, then the clear
\* of line 99; of two non-blocking assignments to one bit the last one wins
scoreboard_update ==
  LET set == IF rd_write_en
             THEN [register_busy EXCEPT ![rd_warp_id][rd_addr] = TRUE]
             ELSE register_busy
  IN  IF clear_busy_en
      THEN [set EXCEPT ![clear_busy_warp][clear_busy_reg] = FALSE]
      ELSE set

\* read operations, lines 73-83: one always_comb drives both ports
read_port(rf, warp, addr) == rf[warp][addr]

\* special zero register handling, lines 146-158: a second always_comb
\* that drives the ports whose address is 0
zero_register(addr, data) == IF addr = 0 THEN ZeroData ELSE data

\* reset, lines 51-60 and 87-90, and the initial block of tb_register_file
InitRegisterFile ==
  /\ register_file = [w \in RfWarps |-> [r \in RfRegs |-> ZeroData]]
  /\ register_busy = [w \in RfWarps |-> [r \in RfRegs |-> FALSE]]
  /\ rs1_data = ZeroData
  /\ rs2_data = ZeroData
  /\ rs1_addr = 0
  /\ rs1_warp_id = 0
  /\ rs2_addr = 0
  /\ rs2_warp_id = 0
  /\ rd_addr = 0
  /\ rd_warp_id = 0
  /\ rd_data = ZeroData
  /\ rd_thread_mask = RfLanes
  /\ rd_write_en = FALSE
  /\ clear_busy_reg = 0
  /\ clear_busy_warp = 0
  /\ clear_busy_en = FALSE
  /\ rf_writes = 0

\* the clocked blocks at a rising edge
RegFileEdge ==
  /\ register_file' = write_register
  /\ register_busy' = scoreboard_update

\* The read ports after the edge and the change of the pins.  rs1_data and
\* rs2_data are assigned by two always_comb blocks.  The block of lines
\* 73-83 runs when the register file, an address or a warp id changes, the
\* block of lines 146-158 when an address changes; the register file
\* changes in the non-blocking region, after the blocks have run for a
\* change of the pins.  When both blocks run for the same change their
\* order is not defined, and the last one to run leaves its value.
RegFileRead ==
  LET full1 == read_port(register_file', rs1_warp_id', rs1_addr')
      full2 == read_port(register_file', rs2_warp_id', rs2_addr')
      storage_changed == register_file' # register_file
      addr_changed == rs1_addr' # rs1_addr \/ rs2_addr' # rs2_addr
      warp_changed ==
        rs1_warp_id' # rs1_warp_id \/ rs2_warp_id' # rs2_warp_id
  IN  IF storage_changed \/ (warp_changed /\ ~addr_changed)
      THEN rs1_data' = full1 /\ rs2_data' = full2
      ELSE IF addr_changed
      THEN \/ rs1_data' = full1 /\ rs2_data' = full2
           \/ /\ rs1_data' = zero_register(rs1_addr', full1)
              /\ rs2_data' = zero_register(rs2_addr', full2)
      ELSE UNCHANGED <<rs1_data, rs2_data>>

\* the environment's choices: an instruction reads both operands from the
\* registers of its own warp; write data as in tb_register_file, a base
\* plus the lane number
MaxRfWrites == 2
RfDataBases == {1, 3}

RfDriveRead ==
  /\ rs1_addr' \in RfRegs
  /\ rs2_addr' \in RfRegs
  /\ rs1_warp_id' \in RfWarps
  /\ rs2_warp_id' = rs1_warp_id'

RfDriveWrite ==
  /\ rf_writes < MaxRfWrites
  /\ rf_writes' = rf_writes + 1
  /\ rd_write_en' = TRUE
  /\ rd_addr' \in RfRegs
  /\ rd_warp_id' \in RfWarps
  /\ rd_thread_mask' \in SUBSET RfLanes
  /\ \E base \in RfDataBases : rd_data' = [t \in RfLanes |-> base + t]

RfDriveNoWrite ==
  /\ rd_write_en' = FALSE
  /\ rd_addr' = 0
  /\ rd_warp_id' = 0
  /\ rd_thread_mask' = RfLanes
  /\ rd_data' = ZeroData
  /\ UNCHANGED rf_writes

RfDriveClear ==
  /\ clear_busy_en' = TRUE
  /\ clear_busy_reg' \in RfRegs
  /\ clear_busy_warp' \in RfWarps

RfDriveNoClear ==
  /\ clear_busy_en' = FALSE
  /\ clear_busy_reg' = 0
  /\ clear_busy_warp' = 0

RfHoldRead ==
  UNCHANGED <<rs1_addr, rs1_warp_id, rs2_addr, rs2_warp_id>>

\* a clock edge after which the read ports change and no write is driven
RfClockQuiet ==
  /\ UNCHANGED <<barrierVars, atomicVars, memVars, schedVars, engineVars,
                 dpiVars, smVars, nestVars, mcVars>>
  /\ RegFileEdge
  /\ RfDriveRead /\ RfDriveNoWrite /\ RfDriveNoClear
  /\ RegFileRead

\* a clock edge after which the read ports change and a write is driven
RfClockWrite ==
  /\ UNCHANGED <<barrierVars, atomicVars, memVars, schedVars, engineVars,
                 dpiVars, smVars, nestVars, mcVars>>
  /\ RegFileEdge
  /\ RfDriveRead /\ RfDriveWrite /\ RfDriveNoClear
  /\ RegFileRead

NextRegisterFile == RfClockQuiet \/ RfClockWrite

\* the scoreboard's environment: the read ports are left alone
\* a clock edge after which neither a write nor a clear is driven
ScoreboardClockQuiet ==
  /\ UNCHANGED <<barrierVars, atomicVars, memVars, schedVars, engineVars,
                 dpiVars, smVars, nestVars, mcVars>>
  /\ RegFileEdge
  /\ RfHoldRead /\ RfDriveNoWrite /\ RfDriveNoClear
  /\ RegFileRead

\* a clock edge after which a write is driven
ScoreboardClockWrite ==
  /\ UNCHANGED <<barrierVars, atomicVars, memVars, schedVars, engineVars,
                 dpiVars, smVars, nestVars, mcVars>>
  /\ RegFileEdge
  /\ RfHoldRead /\ RfDriveWrite /\ RfDriveNoClear
  /\ RegFileRead

\* a clock edge after which a clear is driven
ScoreboardClockClear ==
  /\ UNCHANGED <<barrierVars, atomicVars, memVars, schedVars, engineVars,
                 dpiVars, smVars, nestVars, mcVars>>
  /\ RegFileEdge
  /\ RfHoldRead /\ RfDriveNoWrite /\ RfDriveClear
  /\ RegFileRead

\* a clock edge after which a write and a clear are driven together
ScoreboardClockWriteClear ==
  /\ UNCHANGED <<barrierVars, atomicVars, memVars, schedVars, engineVars,
                 dpiVars, smVars, nestVars, mcVars>>
  /\ RegFileEdge
  /\ RfHoldRead /\ RfDriveWrite /\ RfDriveClear
  /\ RegFileRead

NextScoreboard ==
  \/ ScoreboardClockQuiet
  \/ ScoreboardClockWrite
  \/ ScoreboardClockClear
  \/ ScoreboardClockWriteClear

(***************************************************************************)
(* shared_memory (shared_memory.sv)                                        *)
(***************************************************************************)

\* parameters SHARED_MEM_SIZE, NUM_BANKS and THREADS_PER_WARP, lines 27-29,
\* and the localparam BANK_SIZE, line 58
SHARED_MEM_SIZE == 512
NUM_BANKS == 32
SM_THREADS_PER_WARP == 3
BANK_SIZE == SHARED_MEM_SIZE \div NUM_BANKS

SmLanes == 0 .. (SM_THREADS_PER_WARP - 1)
SmBanks == 0 .. (NUM_BANKS - 1)
SmWords == 0 .. ((BANK_SIZE \div 4) - 1)

\* calculate_bank_addr, lines 86-97: bank = address[6:2],
\* addr = address[SHARED_MEM_ADDR_WIDTH-1:7]
calculate_bank_addr(address) ==
  [bank |-> (address \div 4) % 32,
   addr |-> (address \div 128) % (SHARED_MEM_SIZE \div 128)]

\* bank conflict detection, lines 100-120, from lane i on.  bank_id and
\* bank_addr are assigned for the active lanes only and keep their values
\* otherwise; line 112 compares the lane's bank_addr with the bank_addr of
\* the lane whose number is the bank id.  A comparison with an unknown value
\* is not true.
RECURSIVE detect_conflicts(_, _, _, _)
detect_conflicts(i, address, mask, st) ==
  IF i >= SM_THREADS_PER_WARP THEN st
  ELSE IF i \notin mask THEN detect_conflicts(i + 1, address, mask, st)
  ELSE LET ba == calculate_bank_addr(address[i])
           ids == [st.bank_id EXCEPT ![i] = ba.bank]
           addrs == [st.bank_addr EXCEPT ![i] = ba.addr]
           other == IF ba.bank \in SmLanes THEN addrs[ba.bank] ELSE XVal
           differs == other # XVal /\ addrs[i] # other
       IN  detect_conflicts(i + 1, address, mask,
             [bank_id |-> ids,
              bank_addr |-> addrs,
              bank_accessed |-> st.bank_accessed \cup {ba.bank},
              bank_conflict |->
                IF ba.bank \in st.bank_accessed /\ differs
                THEN st.bank_conflict \cup {ba.bank}
                ELSE st.bank_conflict])

bank_conflict_detection(address, mask) ==
  detect_conflicts(0, address, mask,
                   [bank_id |-> bank_id, bank_addr |-> bank_addr,
                    bank_accessed |-> {}, bank_conflict |-> {}])

\* current_request, line 73, is assigned only from request_queue (line 150)
\* and nothing is ever pushed to request_queue: every field stays unknown
current_request ==
  [thread_mask |-> XVal, write_en |-> "X", byte_enable |-> XVal,
   warp_id |-> XVal]

\* the lanes i for which "if (request.thread_mask[i])" is taken
request_lanes(request) ==
  IF request.thread_mask = XVal THEN {} ELSE request.thread_mask

\* the logical negation of a bit that may be unknown
NotBit(b) == IF b = "X" THEN "X" ELSE IF b = "1" THEN "0" ELSE "1"

\* next state logic where ACCESS is followed by IDLE
next_state_SkipsBroadcast ==
  CASE sm_current_state = "IDLE" ->
         IF sm_req_valid THEN "ARBITRATE" ELSE "IDLE"
    [] sm_current_state = "ARBITRATE" ->
         IF bank_conflict # {} THEN "BANK_CONF" ELSE "ACCESS"
    [] sm_current_state = "ACCESS" -> "IDLE"
    [] sm_current_state = "BANK_CONF" -> "ACCESS"
    [] sm_current_state = "BROADCAST" ->
         IF sm_resp_ready \/ resp_v = "0" THEN "IDLE" ELSE "BROADCAST"

\* next state logic, lines 204-236; req_ready is current_state == IDLE,
\* line 239
next_state ==
  CASE sm_current_state = "IDLE" ->
         IF sm_req_valid THEN "ARBITRATE" ELSE "IDLE"
    [] sm_current_state = "ARBITRATE" ->
         IF bank_conflict # {} THEN "BANK_CONF" ELSE "ACCESS"
    [] sm_current_state = "ACCESS" -> "BROADCAST"
    [] sm_current_state = "BANK_CONF" -> "ACCESS"
    [] sm_current_state = "BROADCAST" ->
         IF sm_resp_ready \/ resp_v = "0" THEN "IDLE" ELSE "BROADCAST"

\* the writes of lines 166-171 for the lanes i .. of request, in lane order;
\* a word is written when the byte enables are all set
RECURSIVE access_write(_, _, _)
access_write(mem, i, request) ==
  IF i >= SM_THREADS_PER_WARP THEN mem
  ELSE IF i \notin request_lanes(request) \/ request.byte_enable # 15
  THEN access_write(mem, i + 1, request)
  ELSE LET ba == calculate_bank_addr(sm_req_address[i])
       IN  access_write([mem EXCEPT ![ba.bank][ba.addr] = sm_req_write_data[i]],
                        i + 1, request)

\* the reads of line 174
access_read(request) ==
  [i \in SmLanes |->
     IF i \in request_lanes(request)
     THEN LET ba == calculate_bank_addr(sm_req_address[i])
          IN  mem_banks[ba.bank][ba.addr]
     ELSE thread_resp_data[i]]

\* reset, lines 124-137, and the initial block of tb_shared_memory; the
\* bank conflict detection has run for the initial pins
InitSharedMemory ==
  /\ sm_current_state = "IDLE"
  /\ mem_banks = [b \in SmBanks |-> [a \in SmWords |-> 0]]
  /\ bank_conflict_count = 0
  /\ access_count = 0
  /\ resp_mask = {}
  /\ resp_id = 0
  /\ resp_v = "0"
  /\ thread_resp_data = [i \in SmLanes |-> XVal]
  /\ bank_id = [i \in SmLanes |-> 0]
  /\ bank_addr = [i \in SmLanes |-> 0]
  /\ bank_conflict = {}
  /\ sm_req_address = [i \in SmLanes |-> 0]
  /\ sm_req_write_data = [i \in SmLanes |-> 0]
  /\ sm_req_thread_mask = SmLanes
  /\ sm_req_write_en = FALSE
  /\ sm_req_valid = FALSE
  /\ sm_resp_ready = TRUE
  /\ sm_requests = 0
  /\ sm_count_at_accept = 0
  /\ sm_last_write = [address |-> [i \in SmLanes |-> 0], mask |-> {},
                      data |-> [i \in SmLanes |-> 0]]

\* the state machine at a rising edge, lines 138-200
SharedMemoryEdge ==
  /\ sm_current_state' = next_state
  /\ resp_v' = CASE sm_current_state = "IDLE" -> "0"
                 [] sm_current_state = "ACCESS" ->
                      NotBit(current_request.write_en)
                 [] sm_current_state = "BROADCAST" -> "1"
                 [] OTHER -> resp_v
  /\ access_count' = IF sm_current_state = "ARBITRATE"
                     THEN access_count + 1 ELSE access_count
  /\ bank_conflict_count' = IF sm_current_state = "BANK_CONF"
                            THEN bank_conflict_count + 1
                            ELSE bank_conflict_count
  /\ IF sm_current_state = "ACCESS"
     THEN /\ mem_banks' = IF current_request.write_en = "1"
                          THEN access_write(mem_banks, 0, current_request)
                          ELSE mem_banks
          /\ thread_resp_data' = IF current_request.write_en = "1"
                                 THEN thread_resp_data
                                 ELSE access_read(current_request)
          /\ resp_mask' = current_request.thread_mask
          /\ resp_id' = current_request.warp_id
     ELSE UNCHANGED <<mem_banks, thread_resp_data, resp_mask, resp_id>>

\* what is recorded at the edge
SmObserve ==
  LET accept == sm_current_state = "IDLE" /\ sm_req_valid
  IN  /\ sm_requests' = IF accept THEN sm_requests + 1 ELSE sm_requests
      /\ sm_count_at_accept' = IF accept THEN bank_conflict_count
                               ELSE sm_count_at_accept
      /\ sm_last_write' =
           IF sm_current_state = "ACCESS" /\ sm_req_write_en
           THEN [address |-> sm_req_address, mask |-> sm_req_thread_mask,
                 data |-> sm_req_write_data]
           ELSE sm_last_write

\* the bank conflict detection runs when one of its inputs has changed
SmDetect ==
  IF sm_req_address' # sm_req_address
       \/ sm_req_thread_mask' # sm_req_thread_mask
  THEN LET st == bank_conflict_detection(sm_req_address', sm_req_thread_mask')
       IN  /\ bank_id' = st.bank_id
           /\ bank_addr' = st.bank_addr
           /\ bank_conflict' = st.bank_conflict
  ELSE UNCHANGED smComb

\* the environment holds the request pins; req_valid may stay high while at
\* most max requests are accepted
SmHold(max) ==
  /\ UNCHANGED <<sm_req_address, sm_req_write_data, sm_req_thread_mask,
                 sm_req_write_en>>
  /\ \/ sm_req_valid' = FALSE
     \/ sm_req_valid /\ sm_requests' < max /\ sm_req_valid' = TRUE
  /\ sm_resp_ready' \in BOOLEAN

\* the environment presents a request whose lanes address the words of addrs;
\* write data as in tb_shared_memory, a base plus the lane number
SmPresent(max, addrs) ==
  /\ ~sm_req_valid
  /\ sm_current_state' = "IDLE"
  /\ sm_requests' < max
  /\ sm_req_valid' = TRUE
  /\ sm_req_address' \in addrs
  /\ sm_req_thread_mask' \in SUBSET SmLanes
  /\ sm_req_write_en' \in BOOLEAN
  /\ sm_req_write_data' = [i \in SmLanes |-> i + 1]
  /\ sm_resp_ready' \in BOOLEAN

\* number of requests and the addresses of a lane: words 0, 1 and 2 of bank 0
\* and word 0 of bank 1
MaxSmRequests == 1
SmAddrs == {0, 128, 256, 4}

\* a clock edge after which the request pins are held
SmClockHold ==
  /\ UNCHANGED <<barrierVars, atomicVars, memVars, schedVars, engineVars,
                 regVars, dpiVars, nestVars, mcVars>>
  /\ SharedMemoryEdge /\ SmObserve
  /\ SmHold(MaxSmRequests)
  /\ SmDetect

\* a clock edge after which a request is presented
SmClockRequest ==
  /\ UNCHANGED <<barrierVars, atomicVars, memVars, schedVars, engineVars,
                 regVars, dpiVars, nestVars, mcVars>>
  /\ SharedMemoryEdge /\ SmObserve
  /\ SmPresent(MaxSmRequests, [SmLanes -> SmAddrs])
  /\ SmDetect

NextSharedMemory == SmClockHold \/ SmClockRequest

\* tb_shared_memory, test_basic_write_read and test_thread_masking: lane i
\* addresses word i * 4; writes and reads with any thread mask
MaxSmTbRequests == 3

TbSmClockHold ==
  /\ UNCHANGED <<barrierVars, atomicVars, memVars, schedVars, engineVars,
                 regVars, dpiVars, nestVars, mcVars>>
  /\ SharedMemoryEdge /\ SmObserve
  /\ SmHold(MaxSmTbRequests)
  /\ SmDetect

TbSmClockRequest ==
  /\ UNCHANGED <<barrierVars, atomicVars, memVars, schedVars, engineVars,
                 regVars, dpiVars, nestVars, mcVars>>
  /\ SharedMemoryEdge /\ SmObserve
  /\ SmPresent(MaxSmTbRequests, {[i \in SmLanes |-> i * 4]})
  /\ SmDetect

NextSharedMemoryTb == TbSmClockHold \/ TbSmClockRequest

(***************************************************************************)
(* memory_controller                                                       *)
(***************************************************************************)

\* parameters of memory_controller, reduced: two cache lines, three lanes
CACHE_SIZE == 256
CACHE_LINE_SIZE == 128
MC_THREADS_PER_WARP == 3
McLanes == 0 .. (MC_THREADS_PER_WARP - 1)
McLines == 0 .. ((CACHE_SIZE \div CACHE_LINE_SIZE) - 1)

\* address[13:7] and address[31:14] for the 16KB cache: the line index and
\* the bits above it; of an unknown address they are unknown
get_cache_index(address) ==
  IF address = XVal THEN XVal
  ELSE (address \div CACHE_LINE_SIZE) % (CACHE_SIZE \div CACHE_LINE_SIZE)
get_cache_tag(address) ==
  IF address = XVal THEN XVal ELSE address \div CACHE_SIZE

\* current_request is declared (line 62) and never assigned
mc_current_request ==
  [address |-> XVal, data |-> XVal, write_en |-> "X"]

\* cache_valid[index] && cache_tags[index] == tag, lines 126 and 197, as a
\* four-state bit
cache_hit(request) ==
  LET index == get_cache_index(request.address) IN
  IF index = XVal THEN "X"
  ELSE IF cache_valid[index] /\ cache_tags[index] = get_cache_tag(request.address)
  THEN "1" ELSE "0"

\* the lanes the coalescing logic adds to coalesced_mask, lines 85-105: an
\* active lane is added unless a lower lane whose bit was set before the
\* edge holds the same word address
coalesce ==
  {i \in exec_thread_mask :
     ~\E j \in McLanes :
        /\ j < i
        /\ j \in coalesced_mask
        /\ exec_address[i] \div 4 = coalesced_addresses[j] \div 4}

\* the state machine transitions, lines 153-190
mc_next_state ==
  CASE mc_current_state = "IDLE" ->
         IF exec_request_valid THEN "COALESCING" ELSE "IDLE"
    [] mc_current_state = "COALESCING" ->
         IF ~exec_request_valid THEN "CACHE_CHECK" ELSE "COALESCING"
    [] mc_current_state = "CACHE_CHECK" ->
         IF cache_hit(mc_current_request) = "0"
         THEN IF cache_dirty[get_cache_index(mc_current_request.address)]
              THEN "WRITEBACK" ELSE "MEMORY_ACCESS"
         ELSE "IDLE"
    [] mc_current_state = "WRITEBACK" ->
         IF mc_mem_ready THEN "MEMORY_ACCESS" ELSE "WRITEBACK"
    [] mc_current_state = "MEMORY_ACCESS" ->
         IF mc_mem_ready THEN "IDLE" ELSE "MEMORY_ACCESS"

\* exec_ready, line 193
exec_ready == mc_current_state = "IDLE"

\* reset, lines 83, 111-116 and 201-202, and the initial block of
\* tb_memory_controller
InitMemoryController ==
  /\ mc_current_state = "IDLE"
  /\ coalesced_mask = {}
  /\ coalesced_addresses = [i \in McLanes |-> XVal]
  /\ coalesced_data = [i \in McLanes |-> XVal]
  /\ cache_data = [l \in McLines |-> XVal]
  /\ cache_tags = [l \in McLines |-> 0]
  /\ cache_valid = [l \in McLines |-> FALSE]
  /\ cache_dirty = [l \in McLines |-> FALSE]
  /\ cache_hits = 0
  /\ cache_misses = 0
  /\ exec_read_data = XVal
  /\ exec_address = [i \in McLanes |-> 0]
  /\ exec_write_data = [i \in McLanes |-> 0]
  /\ exec_thread_mask = McLanes
  /\ exec_write_en = FALSE
  /\ exec_request_valid = FALSE
  /\ mc_mem_read_data = 0
  /\ mc_mem_ready = TRUE
  /\ mc_requests = 0

\* one rising clock edge of memory_controller with rst_n high: the coalescing
\* logic (lines 81-107), the cache control logic (lines 110-150) and the
\* performance counters (lines 199-213)
MemoryControllerEdge ==
  LET coalescing == mc_current_state = "COALESCING" /\ exec_request_valid
      request == mc_current_request
      index == get_cache_index(request.address)
      hit == mc_current_state = "CACHE_CHECK" /\ cache_hit(request) = "1"
      fill == /\ mc_current_state = "MEMORY_ACCESS" /\ mc_mem_ready
              /\ index # XVal
  IN
  /\ coalesced_mask' = IF coalescing THEN coalesced_mask \cup coalesce
                       ELSE coalesced_mask
  /\ coalesced_addresses' =
       [i \in McLanes |-> IF coalescing /\ i \in coalesce THEN exec_address[i]
                          ELSE coalesced_addresses[i]]
  /\ coalesced_data' =
       [i \in McLanes |-> IF coalescing /\ i \in coalesce
                          THEN exec_write_data[i]
                          ELSE coalesced_data[i]]
  /\ mc_current_state' = mc_next_state
  /\ cache_data' =
       [l \in McLines |->
          IF hit /\ l = index /\ request.write_en = "1" THEN request.data
          ELSE IF fill /\ l = index THEN mc_mem_read_data
          ELSE cache_data[l]]
  /\ cache_dirty' =
       [l \in McLines |->
          IF hit /\ l = index /\ request.write_en = "1" THEN TRUE
          ELSE IF fill /\ l = index THEN request.write_en = "1"
          ELSE cache_dirty[l]]
  /\ cache_valid' =
       [l \in McLines |-> IF fill /\ l = index THEN TRUE ELSE cache_valid[l]]
  /\ cache_tags' =
       [l \in McLines |-> IF fill /\ l = index
                          THEN get_cache_tag(request.address)
                          ELSE cache_tags[l]]
  /\ exec_read_data' = IF hit /\ request.write_en = "0" THEN cache_data[index]
                       ELSE exec_read_data
  /\ cache_hits' = IF hit THEN cache_hits + 1 ELSE cache_hits
  /\ cache_misses' = IF mc_current_state = "CACHE_CHECK" /\ ~hit
                     THEN cache_misses + 1 ELSE cache_misses

\* number of warp requests presented in one run
MaxMcRequests == 2
\* the addresses of the lanes of a warp request: the words of one line as in
\* coalescing_test, one word for all lanes, and two lines
McAddressVectors ==
  {[i \in McLanes |-> 20480 + ((i % 4) * 4)],
   [i \in McLanes |-> 20480],
   [i \in McLanes |-> 20480 + (i * CACHE_LINE_SIZE)]}

\* a clock edge after which the execution unit presents a new warp request
McClockPresent ==
  /\ UNCHANGED <<barrierVars, atomicVars, memVars, schedVars, engineVars,
                 regVars, dpiVars, smVars, nestVars>>
  /\ ~exec_request_valid
  /\ mc_requests < MaxMcRequests
  /\ MemoryControllerEdge
  /\ exec_request_valid' = TRUE
  /\ exec_address' \in McAddressVectors
  /\ exec_write_data' = [i \in McLanes |-> i]
  /\ exec_thread_mask' \in (SUBSET McLanes) \ {{}}
  /\ exec_write_en' \in BOOLEAN
  /\ mc_mem_read_data' = 0
  /\ mc_mem_ready' \in BOOLEAN
  /\ mc_requests' = mc_requests + 1

\* a clock edge after which the request on the pins is held or withdrawn
McClockHold ==
  /\ UNCHANGED <<barrierVars, atomicVars, memVars, schedVars, engineVars,
                 regVars, dpiVars, smVars, nestVars>>
  /\ MemoryControllerEdge
  /\ exec_request_valid' \in {exec_request_valid, FALSE}
  /\ mc_mem_ready' \in BOOLEAN
  /\ UNCHANGED <<exec_address, exec_write_data, exec_thread_mask,
                 exec_write_en, mc_mem_read_data, mc_requests>>

NextMemoryController == McClockPresent \/ McClockHold

(***************************************************************************)
(* Specifications                                                          *)
(***************************************************************************)

Init ==
  /\ InitBarrier /\ InitAtomic /\ InitMemoryModel /\ InitScheduler
  /\ InitEngine /\ InitRegisterFile /\ InitDpi /\ InitSharedMemory
  /\ InitNest /\ InitMemoryController

\* barrier_controller with an arbitrary environment
SpecBarrier == Init /\ [][NextBarrier]_vars

\* barrier_controller in tb_barrier_controller.  The clock never stops: a
\* clock edge that changes a register is taken.  (An edge that changes no
\* register and after which the pins are driven as before is a stuttering
\* step; the environment is not obliged to change the pins.)
SpecBarrierTb ==
  Init /\ [][NextBarrierTb]_vars /\ WF_barrierRegs(NextBarrierTb)

\* shared_memory with one request of any shape
SpecSharedMemory == Init /\ [][NextSharedMemory]_vars

\* shared_memory with the requests of tb_shared_memory
SpecSharedMemoryTb == Init /\ [][NextSharedMemoryTb]_vars

\* the engine driven through the DPI wrapper
SpecDpi == Init /\ [][NextDpi]_vars

\* register_file: writes and reads, the scoreboard is never cleared
SpecRegisterFile == Init /\ [][NextRegisterFile]_vars

\* register_file: writes and clears of the scoreboard
SpecScoreboard == Init /\ [][NextScoreboard]_vars

\* atomic_unit with the memory of tb_atomic_unit, one request at a time
SpecAtomic == Init /\ [][NextAtomic]_vars

\* atomic_unit with the memory of tb_atomic_unit, contending ATOMIC_ADDs
SpecAtomicAdd == Init /\ [][NextAtomicAdd]_vars

\* MemoryModel under any sequence of aligned reads and writes
SpecMemory == Init /\ [][NextMemory]_vars

\* MemoryModel under every public and cache-management call
SpecMemoryOps == Init /\ [][NextMemoryOps]_vars

\* SimulationEngine initialised and run, several times over
SpecEngine == Init /\ [][NextEngine]_vars

\* warp_scheduler with an arbitrary environment
SpecScheduler == Init /\ [][NextScheduler]_vars

\* warp_scheduler in tb_warp_scheduler; the clock never stops
SpecSchedulerTb ==
  Init /\ [][NextSchedulerTb]_vars /\ WF_schedRegs(NextSchedulerTb)
\* warp_scheduler fed with branch and synchronisation instructions
SpecSchedulerInstr == Init /\ [][SchedClockInstr]_vars

\* warp_scheduler running nested divergent regions in warp 0
SpecSchedulerNest == Init /\ [][SchedClockNest]_vars

\* atomic_unit with a consumer that is not always ready
SpecAtomicConsumer == Init /\ [][NextAtomicConsumer]_vars

\* memory_controller with warp requests of the execution unit
SpecMemoryController == Init /\ [][NextMemoryController]_vars

Spec == SpecBarrier

(***************************************************************************)
(* Properties of barrier_controller                                        *)
(***************************************************************************)

\* entry i holds identity (bid, blk)
EntryIs(i, bid, blk) ==
  /\ barrier_table[i].barrier_id = bid
  /\ barrier_table[i].block_id = blk

\* C1: a release is scheduled (release_valid_next) only for a live entry whose
\* arrived_warps equals its expected_warps, with expected_warps non-empty, and
\* with that entry's identity and arrived mask; the release_valid seen at the
\* pins is that scheduled release, so it names every expected warp; and no
\* entry ever takes the TIMEOUT path.
C1_ReleaseOnlyWhenComplete ==
  [][ /\ release_valid_next' =>
          \E i \in BarrierIdx :
            /\ ~barrier_free[i] /\ barrier_table[i].active
            /\ barrier_table[i].arrived_warps = barrier_table[i].expected_warps
            /\ barrier_table[i].expected_warps # {}
            /\ EntryIs(i, release_barrier_id_next', release_block_id_next')
            /\ release_warp_mask_next' = barrier_table[i].arrived_warps
      /\ release_valid' =>
            /\ release_valid_next
            /\ release_barrier_id' = release_barrier_id_next
            /\ release_block_id' = release_block_id_next
            /\ release_warp_mask' = release_warp_mask_next
            /\ release_warp_mask' = BlockWarps
      /\ \A i \in BarrierIdx : barrier_states'[i] # "TIMEOUT" ]_vars

\* C1 witness: a release is at the pins for an entry that is being released
C1_Witness ==
  /\ release_valid
  /\ \E i \in BarrierIdx :
       /\ ~barrier_free[i] /\ barrier_table[i].active
       /\ barrier_states[i] = "RELEASING"
       /\ EntryIs(i, release_barrier_id, release_block_id)
       /\ release_warp_mask = barrier_table[i].arrived_warps

\* the environment leaves the controller alone: no arrival is presented and
\* the scheduler is ready to take a release
BarrierQuiet == release_ready /\ ~arrive_valid

\* C5: once exactly the warps of S have arrived at barrier 1 of block 1 and
\* the entry is collecting, then, unless a further arrival is presented or
\* release_ready drops, release_valid is eventually asserted for (1, 1) with
\* release_warp_mask = S.
C5_ReleaseWhenParticipantsArrived ==
  \A S \in (SUBSET BlockWarps) \ {{}} :
    (\E i \in BarrierIdx :
        /\ ~barrier_free[i] /\ barrier_table[i].active
        /\ barrier_states[i] = "COLLECTING"
        /\ EntryIs(i, 1, 1)
        /\ barrier_table[i].arrived_warps = S)
    ~> (\/ ~BarrierQuiet
        \/ /\ release_valid
           /\ release_barrier_id = 1
           /\ release_block_id = 1
           /\ release_warp_mask = S)

\* C6: while an entry is in RELEASING (its release has been scheduled) and is
\* not yet freed, no further release is scheduled for its identity.
C6_SingleReleasePerEpisode ==
  [][ \A i \in BarrierIdx :
        (/\ ~barrier_free[i] /\ barrier_table[i].active
         /\ barrier_states[i] = "RELEASING")
        => ~(/\ release_valid_next'
             /\ EntryIs(i, release_barrier_id_next', release_block_id_next')) ]_vars

\* C7: if release_ready is asserted infinitely often, every live entry in
\* RELEASING is eventually freed.
C7_ReleasedEntryFreed ==
  ([]<>release_ready) =>
    \A i \in BarrierIdx :
      [](( /\ ~barrier_free[i] /\ barrier_table[i].active
           /\ barrier_states[i] = "RELEASING")
         => <>barrier_free[i])

\* C12: while every table entry is in use, an arrival presented for an
\* identity the table does not hold is not accepted on the handshake
\* (arrive_ready is low while arrive_valid is high), and the edge changes the
\* identity and the arrived warps of no entry.
C12_FullTableRejects ==
  [][ ( /\ arrive_valid
        /\ find_barrier(arrive_barrier_id, arrive_block_id) < 0
        /\ find_free_barrier < 0 )
      => ( /\ ~arrive_ready
           /\ \A i \in BarrierIdx :
                /\ barrier_table'[i].barrier_id = barrier_table[i].barrier_id
                /\ barrier_table'[i].block_id = barrier_table[i].block_id
                /\ barrier_table'[i].arrived_warps =
                     barrier_table[i].arrived_warps ) ]_vars

\* C33: an arrival accepted for an identity whose entry is in RELEASING and
\* not yet freed belongs to the next episode of that barrier: after the edge
\* a collecting entry of that identity holds the arriving warp, and the
\* arrival schedules no release for the identity.
C33_ArrivalDuringReleaseCounts ==
  [][ \A i \in BarrierIdx :
        ( /\ ArriveAccepted
          /\ EntryLive(i)
          /\ barrier_states[i] = "RELEASING"
          /\ EntryIs(i, arrive_barrier_id, arrive_block_id) )
        => /\ \E j \in BarrierIdx :
                /\ ~barrier_free'[j] /\ barrier_table'[j].active
                /\ barrier_states'[j] = "COLLECTING"
                /\ barrier_table'[j].barrier_id = arrive_barrier_id
                /\ barrier_table'[j].block_id = arrive_block_id
                /\ arrive_warp_id \in barrier_table'[j].arrived_warps
           /\ ~( /\ release_valid_next'
                 /\ release_barrier_id_next' = arrive_barrier_id
                 /\ release_block_id_next' = arrive_block_id ) ]_vars

\* C34: every entry that becomes complete gets a release of its own: at the
\* edge at which the entry is found complete and moves to RELEASING, the
\* release scheduled carries the entry's barrier_id, block_id and arrived
\* warps, whatever else is completed or released at that edge.
C34_EveryCompletionReleased ==
  [][ \A i \in BarrierIdx :
        Completing(i) =>
          /\ release_valid_next'
          /\ release_barrier_id_next' = barrier_table[i].barrier_id
          /\ release_block_id_next' = barrier_table[i].block_id
          /\ release_warp_mask_next' = barrier_table[i].arrived_warps ]_vars

(***************************************************************************)
(* Properties of atomic_unit                                               *)
(***************************************************************************)

\* the set of bit positions that are 1 in a word, and the word of a set
BitsOf(x) == {k \in 0 .. (WordBits - 1) : (x \div (2 ^ k)) % 2 = 1}
RECURSIVE WordOf(_)
WordOf(S) ==
  IF S = {} THEN 0
  ELSE LET k == CHOOSE j \in S : TRUE IN (2 ^ k) + WordOf(S \ {k})

\* f_op(pre, data, compare_data): the value an atomic operation stores
AtomicResult(op, pre, data, cmp) ==
  CASE op = "ATOMIC_ADD" -> (pre + data) % WordModulus
    [] op = "ATOMIC_SUB" -> (pre + WordModulus - data) % WordModulus
    [] op = "ATOMIC_EXCH" -> data
    [] op = "ATOMIC_MIN" -> IF pre <= data THEN pre ELSE data
    [] op = "ATOMIC_MAX" -> IF pre >= data THEN pre ELSE data
    [] op = "ATOMIC_AND" -> WordOf(BitsOf(pre) \cap BitsOf(data))
    [] op = "ATOMIC_OR" -> WordOf(BitsOf(pre) \cup BitsOf(data))
    [] op = "ATOMIC_XOR" ->
         WordOf((BitsOf(pre) \ BitsOf(data)) \cup (BitsOf(data) \ BitsOf(pre)))
    [] op = "ATOMIC_CAS" -> IF pre = cmp THEN data ELSE pre
    [] op = "ATOMIC_INC" -> (pre + 1) % WordModulus
    [] op = "ATOMIC_DEC" -> (pre + WordModulus - 1) % WordModulus

\* C2: when the unit answers a request (resp_valid), resp_data is the word
\* that was stored at the request's address when the unit took the request,
\* and the word stored there now is f_op of that word, the request's data and
\* its compare_data; a compare-and-swap whose compare_data differs from the
\* stored word leaves the word as it was.
C2_ResponseIsPreImage ==
  resp_valid =>
    LET w == MemWord(current_req.address) IN
    /\ resp_data = original_value
    /\ resp_lane_id = current_req.lane_id
    /\ current_req.op \in atomic_op_e
    /\ memory[w] = AtomicResult(current_req.op, original_value,
                                current_req.data, current_req.compare_data)
    /\ (current_req.op = "ATOMIC_CAS" /\ current_req.compare_data # original_value)
         => memory[w] = original_value

\* C2 witness: a compare-and-swap that fails has been answered, after an
\* earlier operation changed the word
C2_Witness ==
  /\ resp_valid
  /\ atomic_op_count = 2
  /\ current_req.op = "ATOMIC_CAS"
  /\ current_req.compare_data # original_value
  /\ current_req.data # original_value
  /\ resp_data = original_value
  /\ original_value # MemWord(current_req.address) % WordModulus
  /\ memory[MemWord(current_req.address)] = original_value

\* slots of the tracking table that lock an address
LockedSlots(a) ==
  {i \in ReqIdx : address_valid[i] /\ active_addresses[i] = a}

RECURSIVE SumSeq(_)
SumSeq(q) == IF q = << >> THEN 0 ELSE Head(q) + SumSeq(Tail(q))

C11_ContentionCounted ==
  Len(add_returns) >= 2 => atomic_contention_count >= Len(add_returns) - 1

C39_ResponseHeldUntilReady ==
  [][ (resp_valid /\ ~resp_ready) =>
        /\ resp_valid'
        /\ resp_warp_id' = resp_warp_id
        /\ resp_lane_id' = resp_lane_id
        /\ resp_data' = resp_data ]_vars

(***************************************************************************)
(* Properties of MemoryModel                                               *)
(***************************************************************************)

\* C3: the word a read request obtains is the word last written to its
\* address, 0 if the address was never written.
C3_ReadSeesLastWrite ==
  (mm_request.valid /\ ~mm_request.is_write) =>
     mm_data = MainWord(writes, mm_request.address)

\* C18: no cache line is dirty while it is invalid, after every call of
\* process_request, read_instruction, update_cache, invalidate_cache_line and
\* evict_cache_line.
C18_InvalidNotDirty ==
  \A s \in SetIdx, w \in WayIdx : ~sets_[s][w].valid => ~sets_[s][w].dirty

\* C18 witness: a line that was written (its data are not the initial zeros)
\* has been invalidated, next to a line that is valid and dirty
C18_Witness ==
  /\ \E s \in SetIdx, w \in WayIdx :
       /\ ~sets_[s][w].valid /\ ~sets_[s][w].dirty
       /\ \E i \in LineWords : sets_[s][w].data[i] # 0
  /\ \E s \in SetIdx, w \in WayIdx : sets_[s][w].valid /\ sets_[s][w].dirty

\* C19: the hits and the misses counted add up to the reads and the writes
\* counted, after every call.
C19_HitsPlusMisses ==
  stats_.hits + stats_.misses = stats_.reads + stats_.writes

\* C19 witness: reads and writes, hits and misses have all been counted
C19_Witness ==
  /\ stats_.hits > 0 /\ stats_.misses > 0
  /\ stats_.reads > 0 /\ stats_.writes > 0
  /\ stats_.hits + stats_.misses = MaxCacheOps

\* the valid ways of the sets s that hold address
HoldingWays(s, address) ==
  {w \in WayIdx : /\ s[get_set_index(address)][w].valid
                  /\ s[get_set_index(address)][w].tag = get_tag(address)}

\* C20: after a call that served a miss, the line that holds the requested
\* address is valid with the request's tag and its dirty bit equals
\* is_write; a valid clean line is still clean after every call that does
\* not write to it.
C20_RefillDirtyIsWrite ==
  [][ /\ (stats_'.misses = stats_.misses + 1) =>
           /\ HoldingWays(sets_', mm_request'.address) # {}
           /\ \A w \in HoldingWays(sets_', mm_request'.address) :
                sets_'[get_set_index(mm_request'.address)][w].dirty
                  = mm_request'.is_write
      /\ \A s \in SetIdx, w \in WayIdx :
           ( /\ sets_[s][w].valid /\ ~sets_[s][w].dirty
             /\ sets_'[s][w].valid /\ sets_'[s][w].tag = sets_[s][w].tag
             /\ ~( /\ mm_request'.valid /\ mm_request'.is_write
                   /\ s = get_set_index(mm_request'.address)
                   /\ sets_[s][w].tag = get_tag(mm_request'.address) ) )
           => ~sets_'[s][w].dirty ]_vars

\* the way of the set of address that process_request writes: the way that
\* holds the address, or select_victim's way when none does
AccessedWay(address) ==
  IF lookup_cache(address) # {}
  THEN FirstIndex(lookup_cache(address))
  ELSE select_victim(sets_[get_set_index(address)])

\* C37: a call of process_request for an address changes at most one cache
\* line, the way that held the address or else the victim chosen in the set
\* of the address; every other line of the cache keeps its valid and dirty
\* bits, tag, data and last_access.
C37_OneLineChanged ==
  [][ (stats_'.reads + stats_'.writes = stats_.reads + stats_.writes + 1) =>
        \A s \in SetIdx, w \in WayIdx :
          ~( /\ s = get_set_index(mm_request'.address)
             /\ w = AccessedWay(mm_request'.address) )
          => sets_'[s][w] = sets_[s][w] ]_vars

\* C37 witness: after a request, lines of both sets hold the same tag, filled
\* by different requests, and a set has both of its ways valid
C37_Witness ==
  /\ mm_request.valid
  /\ \E s \in SetIdx, t \in SetIdx, w \in WayIdx, v \in WayIdx :
       /\ s # t
       /\ sets_[s][w].valid /\ sets_[t][v].valid
       /\ sets_[s][w].tag = sets_[t][v].tag
       /\ sets_[s][w].last_access # sets_[t][v].last_access
  /\ \E s \in SetIdx : \A w \in WayIdx : sets_[s][w].valid

(***************************************************************************)
(* Properties of warp_scheduler                                            *)
(***************************************************************************)

\* warp w is dispatched in the current cycle
Dispatched(w) == warp_valid /\ warp_id_out = w

\* C8: a warp that is stalled on memory is not dispatched, and once
\* memory_stall is low it becomes ready again (unless memory_stall rises
\* again first).
C8_StalledWarpResumes ==
  /\ [](\A w \in Warps : warp_array[w].state = "WARP_STALLED" => ~Dispatched(w))
  /\ \A w \in Warps :
       (warp_array[w].state = "WARP_STALLED" /\ ~memory_stall)
         ~> (warp_array[w].state = "WARP_READY" \/ memory_stall)

\* C9: a warp named in a barrier stall that no release names in the same
\* cycle is in barrier_stall_mask, and so not dispatched, in the following
\* cycle; a warp in barrier_stall_mask stays there until a release names it;
\* a warp in barrier_stall_mask is not dispatched.
C9_BarrierStallHolds ==
  [][ \A w \in Warps :
        /\ ( /\ barrier_stall /\ w \in barrier_warp_mask
             /\ ~(barrier_release_valid /\ w \in barrier_release_warp_mask) )
           => (w \in barrier_stall_mask' /\ ~Dispatched(w)')
        /\ ( /\ w \in barrier_stall_mask
             /\ ~(barrier_release_valid /\ w \in barrier_release_warp_mask) )
           => w \in barrier_stall_mask'
        /\ w \in barrier_stall_mask' => ~Dispatched(w)' ]_vars

\* C14: a diverging branch dispatched for a warp never lowers the warp's stack
\* pointer and changes no entry below it: the stack holds at most STACK_DEPTH
\* entries and a branch that finds it full leaves it as it is.
C14_StackNeverWraps ==
  [][ \A w \in Warps :
        ( /\ scheduling_active /\ current_warp = w
          /\ is_branch(instruction_out) /\ thread_diverge(instruction_out) )
        => /\ stack_pointer'[w] >= stack_pointer[w]
           /\ \A j \in StackIdx :
                j < stack_pointer[w] =>
                  divergence_stack'[w][j] = divergence_stack[w][j] ]_vars

\* distance of warp w from the round-robin pointer in circular order
CircularDistance(w) == (w + NUM_WARPS - rr_pointer) % NUM_WARPS

\* C21: in each cycle the warp selected is the first Ready warp in circular
\* order starting at the round-robin pointer; after a dispatch of warp c the
\* pointer becomes (c + 1) mod NUM_WARPS, and in a cycle without a dispatch
\* the pointer is unchanged.
C21_RoundRobinSelection ==
  [][IF warp_valid
     THEN /\ warp_array[warp_id_out].state = "WARP_READY"
          /\ warp_array[warp_id_out].valid
          /\ warp_id_out \notin barrier_stall_mask
          /\ \A w \in Warps :
               \/ warp_array[w].state # "WARP_READY"
               \/ ~warp_array[w].valid
               \/ w \in barrier_stall_mask
               \/ CircularDistance(warp_id_out) <= CircularDistance(w)
          /\ rr_pointer' = (warp_id_out + 1) % NUM_WARPS
     ELSE rr_pointer' = rr_pointer]_vars

\* a dispatch of warp 1 from pointer 1 while warp 0 is ready as well: the
\* pointer, not the index, decides
C21_Witness ==
  /\ rr_pointer = 1
  /\ warp_ready_mask = Warps
  /\ warp_valid
  /\ warp_id_out = 1

\* C26: the engine's current time never decreases and every event in the
\* queue, the memory responses scheduled through the DPI wrapper included,
\* has a time that is not earlier than the current time.
C26_TimeNeverDecreases ==
  [][/\ current_time_' >= current_time_
     /\ \A i \in DOMAIN event_queue_' :
          event_queue_'[i].time >= current_time_']_vars

\* C32: when warp w has been dispatched k diverging branches and then k
\* converging instructions, k from 1 to 8, and the divergence stack had room
\* for the k levels, the warp's stack pointer and mask are the ones it had
\* before the first of the branches.
C32_NestingRestores ==
  \A w \in Warps :
    ( /\ nest[w].pushes \in 1 .. STACK_DEPTH
      /\ nest[w].pops = nest[w].pushes
      /\ nest[w].depth + nest[w].pushes <= STACK_DEPTH )
    => /\ stack_pointer[w] = nest[w].sp
       /\ warp_array[w].mask = nest[w].mask

\* C35: a warp that is stalled on memory, with the memory stall still
\* signalled for it, is still stalled after a clock edge at which a barrier
\* release names it, and is not among the ready warps.
C35_MemoryStallOutlastsRelease ==
  [][ \A w \in Warps :
        ( /\ warp_array[w].state = "WARP_STALLED"
          /\ memory_stall /\ stalled_warp_id = w
          /\ barrier_release_valid /\ w \in barrier_release_warp_mask )
        => /\ warp_array'[w].state = "WARP_STALLED"
           /\ w \notin warp_ready_mask' ]_vars

\* C38: no ready warp is starved.  While the execution unit is ready and
\* memory does not stall, a dispatch takes place in every cycle in which a
\* warp is ready.  At every dispatch a ready warp is either
\* the one dispatched or closer to the round-robin pointer afterwards, and a
\* ready warp at the pointer is the one dispatched, so a warp that stays
\* ready is dispatched within NUM_WARPS dispatches; while all warps are
\* ready the dispatches follow the pointer, one warp after the other, so each
\* warp is dispatched once in NUM_WARPS consecutive dispatches.
C38_NoReadyWarpStarved ==
  [][ /\ (execution_ready /\ ~memory_stall /\ warp_ready_mask # {})
           => warp_valid
      /\ warp_valid =>
        /\ \A w \in warp_ready_mask :
             /\ CircularDistance(w) < NUM_WARPS
             /\ CircularDistance(w) = 0 => warp_id_out = w
             /\ \/ warp_id_out = w
                \/ (w + NUM_WARPS - rr_pointer') % NUM_WARPS
                     < CircularDistance(w)
        /\ warp_ready_mask = Warps =>
             /\ warp_id_out = rr_pointer
             /\ rr_pointer' = (rr_pointer + 1) % NUM_WARPS ]_vars

\* C38 witness: with all warps ready the dispatch has gone round: warp 0 is
\* dispatched again after every warp has been dispatched
C38_Witness ==
  /\ warp_valid /\ warp_id_out = 0
  /\ warp_ready_mask = Warps
  /\ \A w \in Warps : warp_array[w].pc > 0

(***************************************************************************)
(* Properties of register_file                                             *)
(***************************************************************************)

\* C22: on both read ports, for every warp and every lane, reading
\* register 0 returns 0 after any sequence of writes, including writes that
\* name register 0.
C22_RegisterZeroReadsZero ==
  /\ rs1_addr = 0 => \A t \in RfLanes : rs1_data[t] = 0
  /\ rs2_addr = 0 => \A t \in RfLanes : rs2_data[t] = 0

\* C23: a write to (rd_warp_id, rd_addr) with thread mask M sets exactly the
\* lanes in M to the data supplied for them; the lanes outside M, every
\* other register of that warp and every register of every other warp keep
\* their values.
C23_WriteUpdatesMaskedLanes ==
  [][rd_write_en =>
       \A w \in RfWarps, r \in RfRegs, t \in RfLanes :
         register_file'[w][r][t] =
           IF w = rd_warp_id /\ r = rd_addr /\ t \in rd_thread_mask
           THEN rd_data[t]
           ELSE register_file[w][r][t]]_vars

\* a register that holds written data in lane 0 and its reset value in
\* lane 1 while another register holds written data in lane 1
C23_Witness ==
  \E w \in RfWarps, r \in RfRegs :
    /\ register_file[w][r][0] # 0
    /\ register_file[w][r][1] = 0
    /\ \E v \in RfWarps, q \in RfRegs :
         <<v, q>> # <<w, r>> /\ register_file[v][q][1] # 0

\* C24: a write that names register 0 has no effect on any observable
\* state: every scoreboard busy bit and every value returned by a read
\* port that is left alone is the same as if the write had not happened.
C24_ZeroWriteDiscarded ==
  [][(rd_write_en /\ rd_addr = 0 /\ ~clear_busy_en) =>
       /\ register_busy' = register_busy
       /\ (rs1_addr' = rs1_addr /\ rs1_warp_id' = rs1_warp_id)
            => rs1_data' = rs1_data
       /\ (rs2_addr' = rs2_addr /\ rs2_warp_id' = rs2_warp_id)
            => rs2_data' = rs2_data]_vars

\* C25: for every (warp, register) the busy bit is set after a clock edge
\* at which a write to that register commits, also when a clear is presented
\* at the same edge; otherwise it is cleared by a clear that names it, and
\* every other bit keeps its value.
C25_BusyFromWriteToClear ==
  [][\A w \in RfWarps, r \in RfRegs :
       register_busy'[w][r] =
         IF rd_write_en /\ w = rd_warp_id /\ r = rd_addr THEN TRUE
         ELSE IF clear_busy_en /\ w = clear_busy_warp /\ r = clear_busy_reg
         THEN FALSE
         ELSE register_busy[w][r]]_vars

(***************************************************************************)
(* Properties of SimulationEngine                                          *)
(***************************************************************************)

\* C15: whenever run() has returned, every warp is inactive (a run that ends
\* at the cycle limit does not return normally).
C15_ReturnMeansFinished ==
  engine_pc = "returned" => \A w \in EngineWarps : ~warp_states_[w].active

\* C16: the event at the top of the queue, the next one dequeued, is the one
\* scheduled first among the events of its cycle.
C16_TiesInInsertionOrder ==
  (engine_pc = "running" /\ event_queue_ # << >>) =>
     \A i \in 1 .. Len(event_queue_) :
        event_queue_[i].time = event_queue_[1].time =>
          event_queue_[1].seq <= event_queue_[i].seq

\* q is an initial segment of r
IsPrefix(q, r) == Len(q) <= Len(r) /\ q = SubSeq(r, 1, Len(q))

\* C17: the trace of a run is, entry by entry, the trace of the previous run
\* of the same configuration, and equal to it when the run has returned.
C17_SameTraceEachRun ==
  /\ (completed_runs >= 1 /\ engine_pc \in {"initialized", "running"}) =>
        IsPrefix(simulation_trace_, prev_trace)
  /\ (completed_runs >= 2 /\ engine_pc = "returned") =>
        simulation_trace_ = prev_trace

\* C17 witness: a second run has returned with a full trace
C17_Witness ==
  /\ completed_runs = 2 /\ engine_pc = "returned"
  /\ Len(simulation_trace_) = TRACE_RESERVE_SIZE
  /\ simulation_trace_ = prev_trace

\* the INSTRUCTION_FETCH events for warp w that are waiting in the queue
PendingFetches(w) ==
  {i \in 1 .. Len(event_queue_) :
     /\ event_queue_[i].type = "INSTRUCTION_FETCH"
     /\ event_queue_[i].data = w}

\* C36: the event queue never holds more than one INSTRUCTION_FETCH event for
\* the same warp, so a warp has one chain of fetches; a memory response does
\* not start a second one.
C36_OneFetchPerWarp ==
  \A w \in EngineWarps : Cardinality(PendingFetches(w)) <= 1

\* the cycles left before the cycle limit stops the loop at the events
\* i .. Len(q) of the queue q, added up: an event takes the loop at most to
\* the time of its latest successor below the limit
RECURSIVE RemainingCycles(_, _)
RemainingCycles(q, i) ==
  IF i > Len(q) THEN 0
  ELSE (IF q[i].time < MAX_CYCLES + 4 THEN MAX_CYCLES + 4 - q[i].time ELSE 0)
         + RemainingCycles(q, i + 1)

\* C40: run() terminates: every iteration of its loop either ends the loop
\* (all warps are inactive, the cycle limit is reached, or SIMULATION_END is
\* processed) or lowers the cycles that remain before the limit, because the
\* event processed is replaced by at most one event at a later time; the
\* remaining cycles are never negative, so the loop runs finitely often.
C40_RunTerminates ==
  [][ (engine_pc = "running" /\ engine_pc' = "running") =>
        /\ RemainingCycles(event_queue_', 1) >= 0
        /\ \/ ~running_'
           \/ event_queue_' = << >>
           \/ RemainingCycles(event_queue_', 1)
                < RemainingCycles(event_queue_, 1) ]_vars

\* C40 witness: a run that processed fetches and a memory response has
\* returned at the cycle limit
C40_Witness ==
  /\ engine_pc = "returned"
  /\ current_time_ >= MAX_CYCLES
  /\ instructions_executed > 0
  /\ \E i \in 1 .. Len(simulation_trace_) :
       simulation_trace_[i].type = "MEMORY_RESPONSE"

(***************************************************************************)
(* Properties of shared_memory                                             *)
(***************************************************************************)

\* the states a request may go through, in order
SmSuccessors ==
  {<<"IDLE", "IDLE">>, <<"IDLE", "ARBITRATE">>,
   <<"ARBITRATE", "BANK_CONF">>, <<"ARBITRATE", "ACCESS">>,
   <<"BANK_CONF", "BANK_CONF">>, <<"BANK_CONF", "ACCESS">>,
   <<"ACCESS", "BROADCAST">>,
   <<"BROADCAST", "BROADCAST">>, <<"BROADCAST", "IDLE">>}

\* C27: every request goes through Idle, Arbitrate, BankConflict (zero or
\* more times), Access, Broadcast and Idle in that order; a request is
\* accepted only in Idle, when one is presented, and the unit returns to
\* Idle once the response has been taken.
C27_StateOrder ==
  [][/\ <<sm_current_state, sm_current_state'>> \in SmSuccessors
     /\ sm_current_state' = "ARBITRATE" =>
          sm_current_state = "IDLE" /\ sm_req_valid
     /\ (sm_current_state = "BROADCAST" /\ sm_resp_ready) =>
          sm_current_state' = "IDLE"]_vars

\* a request that went through BankConflict has been served and the unit is
\* back in Idle
C27_Witness ==
  /\ sm_current_state = "IDLE"
  /\ sm_requests = 1
  /\ access_count = 1
  /\ bank_conflict_count = 1

\* two active lanes of the request address different words of one bank
SmConflicted ==
  \E i \in sm_req_thread_mask, j \in sm_req_thread_mask :
    LET a == calculate_bank_addr(sm_req_address[i])
        b == calculate_bank_addr(sm_req_address[j])
    IN  a.bank = b.bank /\ a.addr # b.addr

\* C28: a request is flagged as conflicted if and only if two active lanes
\* address different words of the same bank; lanes that address the same
\* word are not flagged, whatever their order.
C28_ConflictIffDistinctWords ==
  sm_current_state = "ARBITRATE" => ((bank_conflict # {}) <=> SmConflicted)

\* the largest number of distinct words the active lanes request in one bank
SmSubAccesses ==
  LET words(b) ==
        {calculate_bank_addr(sm_req_address[i]).addr :
           i \in {j \in sm_req_thread_mask :
                    calculate_bank_addr(sm_req_address[j]).bank = b}}
      sizes == {Cardinality(words(b)) : b \in SmBanks}
  IN  CHOOSE n \in sizes : \A m \in sizes : m <= n

\* C29: a conflicted request is served in the minimum number of
\* conflict-free sub-accesses, the largest number of distinct words requested
\* in one bank, and bank_conflict_count grows by one for each of them (the
\* first one counted or not); a request without conflict does not change it.
C29_OneCountPerSubAccess ==
  sm_current_state = "ACCESS" =>
    LET counted == bank_conflict_count - sm_count_at_accept
    IN  IF SmSubAccesses >= 2
        THEN counted >= SmSubAccesses - 1 /\ counted <= SmSubAccesses
        ELSE counted = 0

\* C30: when a read is served after a write with thread mask M, every lane
\* of M that reads the address it wrote, and that no other lane of M wrote,
\* gets the word it wrote; a write leaves the words that no lane of M
\* addresses as they were.
C30_ReadReturnsWritten ==
  [][sm_current_state = "ACCESS" =>
       IF sm_req_write_en
       THEN \A b \in SmBanks, a \in SmWords :
              (\A i \in sm_req_thread_mask :
                 calculate_bank_addr(sm_req_address[i]) #
                   [bank |-> b, addr |-> a])
              => mem_banks'[b][a] = mem_banks[b][a]
       ELSE \A i \in sm_req_thread_mask \cap sm_last_write.mask :
              (/\ sm_req_address[i] = sm_last_write.address[i]
               /\ \A j \in sm_last_write.mask \ {i} :
                    sm_last_write.address[j] # sm_last_write.address[i])
              => thread_resp_data'[i] = sm_last_write.data[i]]_vars

(***************************************************************************)
(* Properties of memory_controller                                         *)
(***************************************************************************)

\* the cache lines the active lanes of the request on the pins address
ActiveLines == {exec_address[i] \div CACHE_LINE_SIZE : i \in exec_thread_mask}

\* C31: the coalescing of a warp request leaves one merged request for each
\* cache line that an active lane addresses: as many entries in the
\* coalescing buffer as there are distinct line addresses, so one entry for a
\* request confined to one line.
C31_OneRequestPerLine ==
  [][ (mc_current_state = "COALESCING" /\ exec_request_valid) =>
        Cardinality(coalesced_mask') = Cardinality(ActiveLines) ]_vars

====
